---- MODULE Spec2Model ----
(***************************************************************************)
(* Model of the ctxovrflw memory plugin for OpenClaw                       *)
(* (src/ctxovrflw/src/index.ts): the per-turn auto-recall hook             *)
(* (before_agent_start), its recall fan-out and fusion, the policy cache   *)
(* and the memory tools that touch it.                                     *)
(*                                                                         *)
(* Scores are held in hundredths (0.25 is 25), so the additive bonuses of  *)
(* scoreMemory are exact integers.                                         *)
(***************************************************************************)
EXTENDS Integers, Sequences, FiniteSets, TLC

(***************************************************************************)
(* Bounds of the model                                                     *)
(***************************************************************************)
\* handler invocations (turns and tool calls) in one run of the process
MaxCalls == 2

(***************************************************************************)
(* Sequence helpers (Array.prototype.filter/map/slice/concat)              *)
(***************************************************************************)
Min(a, b) == IF a < b THEN a ELSE b

Range(s) == {s[i] : i \in 1..Len(s)}

\* Array.prototype.slice(0, n) for n >= 0
SliceTo(s, n) == SubSeq(s, 1, Min(n, Len(s)))

\* Array.prototype.sort((a, b) => b.key - a.key) over [key, val] pairs: stable,
\* descending by key.  InsertDesc puts x after every element whose key is >= x.key;
\* InsertDescUnstable puts it before its equals.
RECURSIVE InsertDescUnstable(_, _)
InsertDescUnstable(sorted, x) ==
  IF sorted = <<>> THEN <<x>>
  ELSE IF Head(sorted).key > x.key
       THEN <<Head(sorted)>> \o InsertDescUnstable(Tail(sorted), x)
       ELSE <<x>> \o sorted

RECURSIVE InsertDesc(_, _)
InsertDesc(sorted, x) ==
  IF sorted = <<>> THEN <<x>>
  ELSE IF Head(sorted).key >= x.key
       THEN <<Head(sorted)>> \o InsertDesc(Tail(sorted), x)
       ELSE <<x>> \o sorted

RECURSIVE SortDescFrom(_, _)
SortDescFrom(acc, s) ==
  IF s = <<>> THEN acc
  ELSE SortDescFrom(InsertDesc(acc, Head(s)), Tail(s))

SortDesc(pairs) ==
  LET sorted == SortDescFrom(<<>>, pairs)
  IN [i \in 1..Len(sorted) |-> sorted[i].val]

(***************************************************************************)
(* Tags: String.prototype.toLowerCase over the tag vocabulary of the model *)
(***************************************************************************)
ToLowerCase(t) ==
  CASE t = "Pinned" -> "pinned"
    [] t = "Policy" -> "policy"
    [] t = "Critical" -> "critical"
    [] OTHER -> t

LowerTags(tags) == {ToLowerCase(tags[i]) : i \in 1..Len(tags)}

GOVERNANCE_TAGS == {"policy", "workflow", "critical", "correction"}

HasGovernanceTag(tags) == \E i \in 1..Len(tags) : ToLowerCase(tags[i]) \in GOVERNANCE_TAGS

(***************************************************************************)
(* scoreMemory                                                             *)
(***************************************************************************)
\* the score kept within 0..1
scoreMemoryClamped(e, highImpact) ==
  LET tags == LowerTags(e.tags)
      bonus == (IF "pinned" \in tags THEN 25 ELSE 0) + (IF "policy" \in tags THEN 20 ELSE 0)
               + (IF "workflow" \in tags THEN 10 ELSE 0)
               + (IF highImpact /\ ({"deploy", "release", "ci"} \cap tags # {}) THEN 12 ELSE 0)
               + (IF e.subject = "user" THEN 5 ELSE 0)
  IN IF e.score + bonus > 100 THEN 100 ELSE e.score + bonus

scoreMemory(e, highImpact) ==
  LET tags == LowerTags(e.tags)
      b1 == IF "pinned" \in tags THEN 25 ELSE 0
      b2 == IF "policy" \in tags THEN 20 ELSE 0
      b3 == IF "workflow" \in tags THEN 10 ELSE 0
      b4 == IF highImpact /\ ({"deploy", "release", "ci"} \cap tags # {}) THEN 12 ELSE 0
      b5 == IF e.subject = "user" THEN 5 ELSE 0
  IN e.score + b1 + b2 + b3 + b4 + b5

(***************************************************************************)
(* extractPolicyRules                                                      *)
(***************************************************************************)
\* the projection with the score left out
RuleOfUnscored(e) ==
  [id |-> e.id, content |-> e.content, subject |-> e.subject, tags |-> e.tags, score |-> 0]

RuleOf(e) ==
  [id |-> e.id, content |-> e.content, subject |-> e.subject, tags |-> e.tags, score |-> e.score]

RECURSIVE extractPolicyRules(_)
extractPolicyRules(entries) ==
  IF entries = <<>> THEN <<>>
  ELSE (IF HasGovernanceTag(Head(entries).tags) THEN <<RuleOf(Head(entries))>> ELSE <<>>)
       \o extractPolicyRules(Tail(entries))

(***************************************************************************)
(* Prompts.  A prompt is a sequence of lower-case words joined by single   *)
(* blanks; WordLen is the number of characters of a word and Occurrences   *)
(* lists, for a word, the keywords of HIGH_IMPACT_PATTERNS that occur in   *)
(* it as a substring, with whether the occurrence starts at the start of   *)
(* the word and whether it ends at its end (the \b anchors).               *)
(***************************************************************************)
WordLen(w) ==
  CASE w = "hi" -> 2
    [] w = "the" -> 3
    [] w = "here" -> 4
    [] w = "notes" -> 5
    [] w = "stage" -> 5
    [] w = "deploy" -> 6
    [] w = "release" -> 7
    [] w = "meeting" -> 7
    [] w = "my" -> 2
    [] w = "is" -> 2
    [] w = "we" -> 2
    [] w = "on" -> 2
    [] w = "max" -> 3
    [] w = "run" -> 3
    [] w = "tabs" -> 4
    [] w = "rust" -> 4
    [] w = "want" -> 4
    [] w = "name" -> 4
    [] w = "tests" -> 5
    [] w = "prefer" -> 6
    [] w = "always" -> 6
    [] w = "system" -> 6
    [] w = "prompt" -> 6
    [] w = "decided" -> 7
    [] w = "remember" -> 8
    [] w = "<relevant-memories>" -> 19
    [] w = "summarize" -> 9
    [] w = "yesterday" -> 9
    [] OTHER -> 1

RECURSIVE PromptLength(_)
PromptLength(words) ==
  IF words = <<>> THEN 0
  ELSE IF Len(words) = 1 THEN WordLen(words[1])
  ELSE WordLen(Head(words)) + 1 + PromptLength(Tail(words))

Occurrences(w) ==
  CASE w = "deploy" -> {[kw |-> "deploy", atStart |-> TRUE, atEnd |-> TRUE]}
    [] w = "release" -> {[kw |-> "release", atStart |-> TRUE, atEnd |-> TRUE]}
    [] w = "stage" -> {[kw |-> "tag", atStart |-> FALSE, atEnd |-> FALSE]}
    [] OTHER -> {}

\* One alternative of a pattern: the keyword and the anchors that bind to it.
\* In /\bdeploy|release|tag|publish|push\b/ the leading \b binds to the first
\* alternative only and the trailing \b to the last one only.
Alt(kw, needStart, needEnd) == [kw |-> kw, needStart |-> needStart, needEnd |-> needEnd]

HIGH_IMPACT_PATTERNS ==
  << {Alt("deploy", TRUE, FALSE), Alt("release", FALSE, FALSE), Alt("tag", FALSE, FALSE),
      Alt("publish", FALSE, FALSE), Alt("push", FALSE, TRUE)},
     {Alt("migration", TRUE, FALSE), Alt("database", FALSE, FALSE), Alt("schema", FALSE, FALSE),
      Alt("drop table", FALSE, FALSE), Alt("delete data", FALSE, TRUE)},
     {Alt("auth", TRUE, FALSE), Alt("security", FALSE, FALSE), Alt("token", FALSE, FALSE),
      Alt("permission", FALSE, FALSE), Alt("production config", FALSE, TRUE)},
     {Alt("webhook", TRUE, FALSE), Alt("notify", FALSE, FALSE), Alt("announcement", FALSE, FALSE),
      Alt("post publicly", FALSE, TRUE)} >>

\* RegExp.prototype.test of one pattern on the prompt
PatternTest(pattern, words) ==
  \E i \in 1..Len(words) : \E alt \in pattern : \E occ \in Occurrences(words[i]) :
    /\ occ.kw = alt.kw
    /\ alt.needStart => occ.atStart
    /\ alt.needEnd => occ.atEnd

isHighImpactIntent(words) ==
  \E g \in 1..Len(HIGH_IMPACT_PATTERNS) : PatternTest(HIGH_IMPACT_PATTERNS[g], words)

(***************************************************************************)
(* buildPolicyChecklist                                                    *)
(***************************************************************************)
ChecklistMax == 5

\* a filter that keeps every rule
RelevantRulesAll(rules, highImpact) == rules

RECURSIVE RelevantRules(_, _)
RelevantRules(rules, highImpact) ==
  IF rules = <<>> THEN <<>>
  ELSE LET r == Head(rules)
           tags == LowerTags(r.tags)
           keep == highImpact \/ "workflow" \in tags \/ "policy" \in tags
       IN (IF keep THEN <<r>> ELSE <<>>) \o RelevantRules(Tail(rules), highImpact)

\* the checklist without its sort
buildPolicyChecklistUnsorted(prompt, rules) ==
  LET relevant == SliceTo(RelevantRules(rules, isHighImpactIntent(prompt)), ChecklistMax)
  IN [i \in 1..Len(relevant) |-> [n |-> i, content |-> relevant[i].content]]

buildPolicyChecklist(prompt, rules) ==
  LET highImpact == isHighImpactIntent(prompt)
      candidates == RelevantRules(rules, highImpact)
      sorted == SortDesc([i \in 1..Len(candidates) |-> [key |-> candidates[i].score, val |-> candidates[i]]])
      relevant == SliceTo(sorted, ChecklistMax)
  IN [i \in 1..Len(relevant) |-> [n |-> i, content |-> relevant[i].content]]

(***************************************************************************)
(* Map<string, V> as a sequence of values with distinct ids, in insertion  *)
(* order: Map.set on a present key replaces the value where it stands.     *)
(***************************************************************************)
MapHas(m, id) == \E i \in 1..Len(m) : m[i].id = id

MapGet(m, id) == m[CHOOSE i \in 1..Len(m) : m[i].id = id]

\* a set that drops the other keys
MapSetClear(m, id, v) == <<v>>

\* a set that leaves a present key as it is
MapSetKeepFirst(m, id, v) == IF MapHas(m, id) THEN m ELSE Append(m, v)

\* a set that appends whether or not the key is present
MapSetAppend(m, id, v) == Append(m, v)

\* a set that deletes a present key and appends it anew
MapSetMoveToEnd(m, id, v) == Append(SelectSeq(m, LAMBDA r : r.id # id), v)

MapSet(m, id, v) ==
  IF MapHas(m, id)
  THEN [i \in 1..Len(m) |-> IF m[i].id = id THEN v ELSE m[i]]
  ELSE Append(m, v)

RECURSIVE MapSetAll(_, _)
MapSetAll(m, vs) ==
  IF vs = <<>> THEN m
  ELSE MapSetAll(MapSet(m, Head(vs).id, Head(vs)), Tail(vs))

MapKeys(m) == {m[i].id : i \in 1..Len(m)}

(***************************************************************************)
(* Fusion (before_agent_start, after the fan-out has been joined)          *)
(***************************************************************************)
\* the merge loop with >= in place of >: the last of equally scored entries wins
RECURSIVE MergeByIdLastWins(_, _, _)
MergeByIdLastWins(byId, merged, highImpact) ==
  IF merged = <<>> THEN byId
  ELSE LET e == Head(merged)
           next == IF e.id = "" THEN byId
                   ELSE IF ~MapHas(byId, e.id)
                           \/ scoreMemory(e, highImpact) >= scoreMemory(MapGet(byId, e.id), highImpact)
                        THEN MapSet(byId, e.id, e)
                        ELSE byId
       IN MergeByIdLastWins(next, Tail(merged), highImpact)

\* the merge-by-id loop; an entry without an id ("" here) is skipped
RECURSIVE MergeById(_, _, _)
MergeById(byId, merged, highImpact) ==
  IF merged = <<>> THEN byId
  ELSE LET e == Head(merged)
           next == IF e.id = "" THEN byId
                   ELSE IF ~MapHas(byId, e.id)
                           \/ scoreMemory(e, highImpact) > scoreMemory(MapGet(byId, e.id), highImpact)
                        THEN MapSet(byId, e.id, e)
                        ELSE byId
       IN MergeById(next, Tail(merged), highImpact)

\* the floor applied to the base score
RECURSIVE AboveFloorBase(_, _, _)
AboveFloorBase(entries, highImpact, minScore) ==
  IF entries = <<>> THEN <<>>
  ELSE (IF Head(entries).score >= minScore THEN <<Head(entries)>> ELSE <<>>)
       \o AboveFloorBase(Tail(entries), highImpact, minScore)

RECURSIVE AboveFloor(_, _, _)
AboveFloor(entries, highImpact, minScore) ==
  IF entries = <<>> THEN <<>>
  ELSE (IF scoreMemory(Head(entries), highImpact) >= minScore THEN <<Head(entries)>> ELSE <<>>)
       \o AboveFloor(Tail(entries), highImpact, minScore)

Rank(byId, highImpact, minScore, limit) ==
  LET kept == AboveFloor(byId, highImpact, minScore)
      sorted == SortDesc([i \in 1..Len(kept) |-> [key |-> scoreMemory(kept[i], highImpact), val |-> kept[i]]])
  IN SliceTo(sorted, limit)

(***************************************************************************)
(* Memories the recall service may return, and its responses               *)
(***************************************************************************)
Entry(id, content, subject, tags, score) ==
  [id |-> id, content |-> content, subject |-> subject, tags |-> tags, score |-> score]

E_A == Entry("m1", "a", "", <<>>, 50)
E_B == Entry("m1", "b", "", <<"pinned">>, 60)
E_T == Entry("m1", "t", "", <<"Pinned">>, 25)
E_P == Entry("m2", "p", "", <<"Policy">>, 15)
E_W == Entry("m2", "w", "project:ctxovrflw", <<"workflow", "deploy">>, 18)
E_C == Entry("m3", "c", "user", <<"critical">>, 35)
E_N == Entry("", "n", "", <<>>, 90)

\* SearchResponse; null is true of a body that parsed to JSON null
Response(results, graph) == [null |-> FALSE, results |-> results, graph_context |-> graph]

EmptyResponse == Response(<<>>, "")

NullResponse == [null |-> TRUE, results |-> <<>>, graph_context |-> ""]

Calls == {"general", "user", "project", "preflight"}

CallOrder == <<"general", "user", "project", "preflight">>

Pool(c) ==
  CASE c = "general" -> {EmptyResponse, Response(<<E_A>>, ""), Response(<<E_P>>, ""),
                         Response(<<E_N, E_A>>, "g"), NullResponse}
    [] c = "user" -> {Response(<<E_T>>, ""), Response(<<E_C>>, "")}
    [] c = "project" -> {Response(<<E_B>>, ""), Response(<<E_W>>, "u")}
    [] c = "preflight" -> {Response(<<E_W>>, ""), Response(<<E_C, E_T>>, "")}

(***************************************************************************)
(* Promises                                                                *)
(***************************************************************************)
Pending == [state |-> "pending", value |-> EmptyResponse]

Fulfilled(v) == [state |-> "fulfilled", value |-> v]

Rejected == [state |-> "rejected", value |-> EmptyResponse]

\* a recall promise left without its catch
CatchRethrow(p) == p

\* a catch that returns nothing: promise.catch(() => undefined)
CatchUndefined(p) ==
  IF p.state = "rejected"
  THEN [state |-> "fulfilled", value |-> [null |-> TRUE, results |-> <<>>, graph_context |-> ""]]
  ELSE p

\* promise.catch(() => ({ ok: true, results: [] }))
CatchEmpty(p) == IF p.state = "rejected" THEN Fulfilled(EmptyResponse) ELSE p

\* Promise.any in place of Promise.all: fulfilled as soon as one is fulfilled
PromiseAny(ps) ==
  IF \E c \in Calls : CatchEmpty(ps[c]).state = "fulfilled" THEN "fulfilled"
  ELSE IF \A c \in Calls : CatchEmpty(ps[c]).state = "rejected" THEN "rejected"
  ELSE "pending"

\* Promise.all over the four wrapped promises: rejected as soon as one is
\* rejected, fulfilled once all are fulfilled, pending otherwise.
PromiseAll(ps) ==
  IF \E c \in Calls : CatchEmpty(ps[c]).state = "rejected" THEN "rejected"
  ELSE IF \A c \in Calls : CatchEmpty(ps[c]).state = "fulfilled" THEN "fulfilled"
  ELSE "pending"

(***************************************************************************)
(* Configuration (register): limits are small so that the cap cuts         *)
(***************************************************************************)
Config(mode) ==
  [autoRecallMode |-> mode, recallLimit |-> 1, preflightRecallLimit |-> 2,
   recallMinScore |-> 30, captureMaxChars |-> 30, telemetryEnabled |-> TRUE]

\* telemetry flush policy: every FlushEvery turns, or FlushInterval after the
\* last flush (the clock counts units of ten minutes)
FlushEvery == 20
FlushInterval == 1
\* the clock stops at MaxClock
MaxClock == 2

(***************************************************************************)
(* Prompts offered to the hook                                             *)
(***************************************************************************)
P_Tiny == <<"hi">>
P_Short == <<"notes", "here">>
P_Long == <<"summarize", "yesterday", "meeting">>
P_Deploy == <<"deploy", "the", "release">>

Prompts == {P_Tiny, P_Short, P_Long, P_Deploy}

(***************************************************************************)
(* State                                                                   *)
(***************************************************************************)
VARIABLES
  cfg,          \* PluginConfig built by register
  setup,        \* client, setupChecked, setupFailed
  telemetry,    \* turns, recalls, preflightRecalls, injectedMemories, lastLogAt
  now,          \* Date.now()
  policyCache,  \* Map<string, PolicyRule>
  pc,           \* "idle", "await" (the hook awaits its fan-out) or "done" (a handler has its result)
  prompt,       \* event.prompt of the turn in progress
  issued,       \* the recall queries this turn sent to the service
  promise,      \* what c.recall returned for each of the four slots of the fan-out
  pass,         \* locals of the last fusion pass: merged, byId, ranked, highImpact
  ret,          \* what the handler last returned
  lastTool,     \* the tool call that finished: tool, memory id, success, tags of a stored entry
  calls,        \* number of handler invocations so far
  tasks         \* the handler invocations of a host that lets them overlap

vars == <<cfg, setup, telemetry, now, policyCache, pc, prompt, issued, promise, pass, ret, lastTool, calls, tasks>>

NoPass == [ran |-> FALSE, highImpact |-> FALSE, merged |-> <<>>, byId |-> <<>>, ranked |-> <<>>]

NotRun == [kind |-> "notrun", ranked |-> <<>>, checklist |-> <<>>, graph |-> "", emitted |-> 0]

Nothing == [kind |-> "nothing", ranked |-> <<>>, checklist |-> <<>>, graph |-> "", emitted |-> 0]

NoTool == [tool |-> "none", id |-> "", ok |-> FALSE, tags |-> <<>>]

\* most handler invocations in flight or finished on an overlapping host
MaxTasks == 2

\* an invocation that has not started: op is the handler, arg the prompt it
\* was given, params the params of memory_store, client what getClient returned to it, snapshot the
\* telemetry when it started, out what it returned and metric the promise of
\* the c.remember of its telemetry flush; counted is the value its
\* `telemetry.turns += 1` gave the counter and logged the `turns=` of the
\* summary record it emitted (0 for none)
ZeroTelemetry ==
  [turns |-> 0, recalls |-> 0, preflightRecalls |-> 0, injectedMemories |-> 0, lastLogAt |-> 0]

NoParams == [content |-> "", words |-> <<>>, tags |-> <<>>]

NoTask ==
  [op |-> "none", pc |-> "free", arg |-> <<>>, params |-> NoParams, issued |-> {},
   client |-> FALSE, snapshot |-> ZeroTelemetry, out |-> NotRun, metric |-> "none",
   counted |-> 0, logged |-> 0]

Init ==
  /\ cfg = Config("smart")
  /\ setup = [client |-> FALSE, setupChecked |-> FALSE, setupFailed |-> FALSE]
  /\ telemetry = [turns |-> 0, recalls |-> 0, preflightRecalls |-> 0, injectedMemories |-> 0, lastLogAt |-> 0]
  /\ now = 0
  /\ policyCache = <<>>
  /\ pc = "idle"
  /\ prompt = <<>>
  /\ issued = {}
  /\ promise = [c \in Calls |-> Pending]
  /\ pass = NoPass
  /\ ret = NotRun
  /\ lastTool = NoTool
  /\ calls = 0
  /\ tasks = [t \in 1..MaxTasks |-> NoTask]

(***************************************************************************)
(* getClient: envOk is whether the daemon is installed, config.toml exists *)
(* and an auth token is found at the time of the one setup check.          *)
(***************************************************************************)
\* a getClient that checks again after a failed check
getClientRetry(st, envOk) ==
  IF st.client THEN st
  ELSE IF envOk
       THEN [client |-> TRUE, setupChecked |-> TRUE, setupFailed |-> FALSE]
       ELSE [client |-> FALSE, setupChecked |-> TRUE, setupFailed |-> TRUE]

getClient(st, envOk) ==
  IF st.client THEN st
  ELSE IF st.setupFailed THEN st
  ELSE IF ~st.setupChecked
       THEN IF envOk
            THEN [client |-> TRUE, setupChecked |-> TRUE, setupFailed |-> FALSE]
            ELSE [client |-> FALSE, setupChecked |-> TRUE, setupFailed |-> TRUE]
       ELSE st

(***************************************************************************)
(* before_agent_start, up to the await of the fan-out                      *)
(***************************************************************************)
\* a fan-out that sends the preflight query on every turn
IssuedCallsAll(highImpact) == Calls

\* the queries the fan-out sends: the preflight slot is a c.recall only on a
\* high-impact turn
IssuedCalls(highImpact) == IF highImpact THEN Calls ELSE Calls \ {"preflight"}

\* a hook that recalls on every turn whatever the mode
SmartSkipNever(c, highImpact, length) == FALSE

\* if (cfg.autoRecallMode === "smart" && !highImpact && prompt.length < 25) return;
SmartSkip(c, highImpact, length) == c.autoRecallMode = "smart" /\ ~highImpact /\ length < 25

\* a hook that counts a high-impact turn as a preflight recall only
CountRecallGeneralOnly(tel, highImpact) ==
  IF highImpact THEN [tel EXCEPT !.preflightRecalls = @ + 1] ELSE [tel EXCEPT !.recalls = @ + 1]

\* telemetry.recalls += 1, first statement of the try block
CountRecall(tel, highImpact) == [tel EXCEPT !.recalls = @ + 1]

\* before_agent_start from its entry to its first return or to the await of
\* the fan-out (pc "done" or "await"), given the setup state and the telemetry
\* it finds
HookStart(p, envOk, c, st0, tel) ==
  IF p = <<>> \/ PromptLength(p) < 5
  THEN [setup |-> st0, client |-> FALSE, telemetry |-> tel, issued |-> {}, pc |-> "done"]
  ELSE LET st == getClient(st0, envOk)
           highImpact == isHighImpactIntent(p)
       IN IF ~st.client
          THEN [setup |-> st, client |-> FALSE, telemetry |-> tel, issued |-> {}, pc |-> "done"]
          ELSE IF SmartSkip(c, highImpact, PromptLength(p))
          THEN [setup |-> st, client |-> TRUE, telemetry |-> [tel EXCEPT !.turns = @ + 1],
                issued |-> {}, pc |-> "done"]
          ELSE [setup |-> st, client |-> TRUE,
                telemetry |-> CountRecall([tel EXCEPT !.turns = @ + 1], highImpact),
                issued |-> IssuedCalls(highImpact), pc |-> "await"]

BeforeAgentStart(p, envOk) ==
  /\ pc = "idle"
  /\ calls < MaxCalls
  /\ calls' = calls + 1
  /\ prompt' = p
  /\ LET h == HookStart(p, envOk, cfg, setup, telemetry)
     IN /\ setup' = h.setup
        /\ telemetry' = h.telemetry
        /\ issued' = h.issued
        /\ pc' = h.pc
        /\ ret' = IF h.pc = "done" THEN Nothing ELSE NotRun
  /\ UNCHANGED <<tasks, cfg, now, policyCache, lastTool, pass, promise>>

\* Promise.resolve(...) stands in for the preflight query that is not issued
SlotPromise(c) == IF c \in issued THEN promise[c] ELSE Fulfilled(EmptyResponse)

SlotPromises == [c \in Calls |-> SlotPromise(c)]

(***************************************************************************)
(* The recall service answers one query of the fan-out, or fails           *)
(***************************************************************************)
RecallSettles(c, settled) ==
  /\ pc = "await"
  /\ c \in issued
  /\ promise[c].state = "pending"
  /\ promise' = [promise EXCEPT ![c] = settled]
  /\ UNCHANGED <<tasks, cfg, setup, telemetry, now, policyCache, pc, prompt, issued, pass, ret, lastTool, calls>>

(***************************************************************************)
(* before_agent_start, from the await of Promise.all to the return         *)
(***************************************************************************)
\* [...general.results, ...userScoped.results, ...projectScoped.results, ...preflight.results]
RECURSIVE ConcatResults(_, _)
ConcatResults(vals, order) ==
  IF order = <<>> THEN <<>>
  ELSE vals[Head(order)].results \o ConcatResults(vals, Tail(order))

\* the general limit on every turn
RankLimitGeneral(c, highImpact) == c.recallLimit

\* slice(0, highImpact ? cfg.preflightRecallLimit : cfg.recallLimit)
RankLimit(c, highImpact) == IF highImpact THEN c.preflightRecallLimit ELSE c.recallLimit

\* if (cfg.telemetryEnabled && (telemetry.turns % 20 === 0 || Date.now() - telemetry.lastLogAt > 10 * 60 * 1000))
FlushDue(c, tel, clock) ==
  c.telemetryEnabled /\ (tel.turns % FlushEvery = 0 \/ clock - tel.lastLogAt > FlushInterval)

\* text.replace(/&/g, "&amp;").replace(/</g, "&lt;").replace(/>/g, "&gt;") over
\* the graph texts of the model
escapeForPrompt(text) ==
  CASE text = "<g>" -> "&lt;g&gt;"
    [] OTHER -> text

\* the graph context of whichever query returned one
GraphContextAny(vals) ==
  IF \E c \in Calls : vals[c].graph_context # ""
  THEN escapeForPrompt(vals[CHOOSE c \in Calls : vals[c].graph_context # ""
                              /\ (c = "general" \/ vals["general"].graph_context = "")].graph_context)
  ELSE ""

\* if (general.graph_context) context += escapeForPrompt(general.graph_context)
GraphContext(vals) == escapeForPrompt(vals["general"].graph_context)

\* a flush that starts the counters anew
FlushedReset(tel, clock) ==
  [turns |-> 0, recalls |-> 0, preflightRecalls |-> 0, injectedMemories |-> 0, lastLogAt |-> clock]

\* telemetry.lastLogAt = Date.now(): the flush leaves the counters as they are
Flushed(tel, clock) == [tel EXCEPT !.lastLogAt = clock]

\* a refresh from everything the queries returned
RefreshRulesMerged(merged, ranked) == extractPolicyRules(merged)

\* for (const rule of extractPolicyRules(ranked)) policyCache.set(rule.id, rule)
RefreshRules(merged, ranked) == extractPolicyRules(ranked)

\* a checklist built on every turn
TurnChecklistAlways(highImpact, p, cache) == buildPolicyChecklist(p, cache)

\* highImpact ? buildPolicyChecklist(prompt, [...policyCache.values()]) : []
TurnChecklist(highImpact, p, cache) ==
  IF highImpact THEN buildPolicyChecklist(p, cache) ELSE <<>>

\* a return that looks at the ranked output only
NothingRanked(ranked, policyChecklist) == ranked = <<>>

\* a return as soon as either is empty
NothingEither(ranked, policyChecklist) == ranked = <<>> \/ policyChecklist = <<>>

\* if (ranked.length === 0 && policyChecklist.length === 0) return;
NothingQualified(ranked, policyChecklist) == ranked = <<>> /\ policyChecklist = <<>>

\* the handler without its try/catch
HandlerRethrow(kind) == IF kind = "threw" THEN "raised" ELSE kind

\* the catch of the handler's try block: an exception inside it is logged and
\* the handler returns undefined
HandlerCatch(kind) == IF kind = "threw" THEN "nothing" ELSE kind

\* The body of the try block once Promise.all has settled with state all and,
\* when fulfilled, the values vals.  Yields the completion (kind), the
\* returned context and the state the body leaves behind.
TryBody(all, vals, p, c, cache, tel, clock) ==
  LET highImpact == isHighImpactIntent(p)
      tel1 == IF highImpact THEN [tel EXCEPT !.preflightRecalls = @ + 1] ELSE tel
      merged == ConcatResults(vals, CallOrder)
      byId == MergeById(<<>>, merged, highImpact)
      ranked == Rank(byId, highImpact, c.recallMinScore, RankLimit(c, highImpact))
      cache1 == MapSetAll(cache, RefreshRules(merged, ranked))
      policyChecklist == TurnChecklist(highImpact, p, cache1)
      tel2 == [tel1 EXCEPT !.injectedMemories = @ + Len(ranked)]
      flush == FlushDue(c, tel2, clock)
      tel3 == IF flush THEN Flushed(tel2, clock) ELSE tel2
      thisPass == [ran |-> TRUE, highImpact |-> highImpact, merged |-> merged, byId |-> byId, ranked |-> ranked]
  IN IF all = "rejected"
     THEN [kind |-> "threw", out |-> Nothing, cache |-> cache, tel |-> tel, pass |-> NoPass]
     ELSE IF \E k \in Calls : vals[k].null
     THEN [kind |-> "threw", out |-> Nothing, cache |-> cache, tel |-> tel1, pass |-> NoPass]
     ELSE IF NothingQualified(ranked, policyChecklist)
     THEN [kind |-> "nothing", out |-> Nothing, cache |-> cache1, tel |-> tel1, pass |-> thisPass]
     ELSE [kind |-> "context",
           out |-> [kind |-> "context", ranked |-> ranked, checklist |-> policyChecklist,
                    graph |-> GraphContext(vals), emitted |-> IF flush THEN 1 ELSE 0],
           cache |-> cache1, tel |-> tel3, pass |-> thisPass]

FanOutJoins ==
  /\ pc = "await"
  /\ PromiseAll(SlotPromises) # "pending"
  /\ LET vals == [c \in Calls |-> CatchEmpty(SlotPromise(c)).value]
         r == TryBody(PromiseAll(SlotPromises), vals, prompt, cfg, policyCache, telemetry, now)
     IN /\ ret' = [r.out EXCEPT !.kind = HandlerCatch(r.kind)]
        /\ policyCache' = r.cache
        /\ telemetry' = r.tel
        /\ pass' = r.pass
  /\ pc' = "done"
  /\ UNCHANGED <<tasks, cfg, setup, now, prompt, issued, promise, lastTool, calls>>

\* the host takes the result of the handler that finished; its locals are gone
HandlerReturns ==
  /\ pc = "done"
  /\ pc' = "idle"
  /\ prompt' = <<>>
  /\ issued' = {}
  /\ promise' = [c \in Calls |-> Pending]
  /\ pass' = NoPass
  /\ ret' = NotRun
  /\ lastTool' = NoTool
  /\ UNCHANGED <<tasks, cfg, setup, telemetry, now, policyCache, calls>>

\* more than the flush interval passes while the fan-out is in flight
Tick ==
  /\ pc = "await"
  /\ \A c \in issued : promise[c].state = "pending"
  /\ now + FlushInterval + 1 <= MaxClock
  /\ now' = now + FlushInterval + 1
  /\ UNCHANGED <<tasks, cfg, setup, telemetry, policyCache, pc, prompt, issued, promise, pass, ret, lastTool, calls>>

(***************************************************************************)
(* Tools                                                                   *)
(***************************************************************************)
\* params given to memory_store: the text (its content and words) and the tags
S_Plain == [content |-> "s1", words |-> <<"use", "tabs">>, tags |-> <<>>]
S_Crit == [content |-> "s2", words |-> <<"use", "tabs">>, tags |-> <<"Critical">>]
S_Fix == [content |-> "s3", words |-> <<"not", "that", "deploy">>, tags |-> <<>>]

StoreParams == {S_Plain, S_Crit, S_Fix}

\* ids the service gives to a stored memory, and ids handed to forget/unpin
StoreIds == {"m2"}
ToolIds == {"m2"}

\* /\b(correct|correction|i already told you|not\s+that)\b/i
isCorrection(words) ==
  \/ \E i \in 1..Len(words) : words[i] \in {"correct", "correction"}
  \/ \E i \in 1..(Len(words) - 1) : words[i] = "not" /\ words[i + 1] = "that"
  \/ \E i \in 1..(Len(words) - 3) :
       words[i] = "i" /\ words[i + 1] = "already" /\ words[i + 2] = "told" /\ words[i + 3] = "you"

\* /\b(deploy|release|push|ci|update|checklist|workflow)\b/i
isWorkflow(words) ==
  \E i \in 1..Len(words) :
    words[i] \in {"deploy", "release", "push", "ci", "update", "checklist", "workflow"}

\* Array.from(new Set(xs.filter(Boolean))): first occurrences, in order, without ""
RECURSIVE UniqueFrom(_, _)
UniqueFrom(acc, xs) ==
  IF xs = <<>> THEN acc
  ELSE UniqueFrom(IF Head(xs) = "" \/ Head(xs) \in Range(acc) THEN acc ELSE Append(acc, Head(xs)),
                  Tail(xs))

StoreTags(incomingTags, words) ==
  UniqueFrom(<<>>, incomingTags \o <<IF isCorrection(words) THEN "correction" ELSE "",
                                     IF isCorrection(words) THEN "policy" ELSE "",
                                     IF isWorkflow(words) THEN "workflow" ELSE "">>)

\* the write-through with the governance tags compared as written
WriteThroughExact(cache, tags, memory) ==
  IF \E i \in 1..Len(tags) : tags[i] \in GOVERNANCE_TAGS
  THEN MapSet(cache, memory.id,
              [id |-> memory.id, content |-> memory.content, subject |-> memory.subject,
               tags |-> memory.tags, score |-> 100])
  ELSE cache

\* the write-through of memory_store after c.remember returned memory
WriteThrough(cache, tags, memory) ==
  IF HasGovernanceTag(tags)
  THEN MapSet(cache, memory.id,
              [id |-> memory.id, content |-> memory.content, subject |-> memory.subject,
               tags |-> memory.tags, score |-> 100])
  ELSE cache

\* a write-through made before c.remember has answered
StoreCacheOptimistic(cache, tags, memory, stored) == WriteThrough(cache, tags, memory)

\* memory_store after `await c.remember(...)`: a rejection leaves the try block
\* before the write-through
StoreCache(cache, tags, memory, stored) ==
  IF stored THEN WriteThrough(cache, tags, memory) ELSE cache

ToolStart ==
  /\ pc = "idle"
  /\ calls < MaxCalls
  /\ calls' = calls + 1
  /\ pc' = "done"
  /\ UNCHANGED <<tasks, cfg, telemetry, now, prompt, issued, promise, pass, ret>>

\* memory_store.execute; stored is FALSE when c.remember rejects, id is the id
\* the service gave the memory and echo whether it returns the tags it was sent
MemoryStore(params, envOk, stored, id, echo) ==
  /\ ToolStart
  /\ LET st == getClient(setup, envOk)
         tags == StoreTags(params.tags, params.words)
         memory == [id |-> id, content |-> params.content, subject |-> "",
                    tags |-> IF echo THEN tags ELSE <<>>]
     IN /\ setup' = st
        /\ IF ~st.client
           THEN /\ lastTool' = [tool |-> "memory_store", id |-> "", ok |-> FALSE, tags |-> <<>>]
                /\ UNCHANGED policyCache
           ELSE /\ policyCache' = StoreCache(policyCache, tags, memory, stored)
                /\ lastTool' = IF stored
                               THEN [tool |-> "memory_store", id |-> id, ok |-> TRUE, tags |-> tags]
                               ELSE [tool |-> "memory_store", id |-> "", ok |-> FALSE, tags |-> tags]

\* memory_forget.execute; forgotten is FALSE when c.forget rejects
MemoryForget(memoryId, envOk, forgotten) ==
  /\ ToolStart
  /\ LET st == getClient(setup, envOk)
     IN /\ setup' = st
        /\ lastTool' = [tool |-> "memory_forget", id |-> memoryId, ok |-> st.client /\ forgotten,
                        tags |-> <<>>]
        /\ UNCHANGED policyCache

\* memory_unpin.execute; probe is what the recall probe did ("fail", "miss" or
\* "hit") and updated is FALSE when c.update rejects
MemoryUnpin(memoryId, envOk, probe, updated) ==
  /\ ToolStart
  /\ LET st == getClient(setup, envOk)
     IN /\ setup' = st
        /\ lastTool' = [tool |-> "memory_unpin", id |-> memoryId,
                        ok |-> st.client /\ probe = "hit" /\ updated, tags |-> <<>>]
        /\ UNCHANGED policyCache

(***************************************************************************)
(* Specification                                                           *)
(***************************************************************************)
Settlements(c) == {Fulfilled(r) : r \in Pool(c)} \cup {Rejected}

Next ==
  \/ \E p \in Prompts, envOk \in BOOLEAN : BeforeAgentStart(p, envOk)
  \/ \E c \in Calls : \E settled \in Settlements(c) : RecallSettles(c, settled)
  \/ FanOutJoins
  \/ HandlerReturns
  \/ Tick
  \/ \E params \in StoreParams, envOk \in BOOLEAN, stored \in BOOLEAN,
        id \in StoreIds, echo \in BOOLEAN :
       MemoryStore(params, envOk, stored, id, echo)
  \/ \E memoryId \in ToolIds, envOk \in BOOLEAN, forgotten \in BOOLEAN :
       MemoryForget(memoryId, envOk, forgotten)
  \/ \E memoryId \in ToolIds, envOk \in BOOLEAN, probe \in {"fail", "miss", "hit"}, updated \in BOOLEAN :
       MemoryUnpin(memoryId, envOk, probe, updated)

Spec == Init /\ [][Next]_vars

(***************************************************************************)
(* A host that lets handler invocations overlap.  A handler runs without   *)
(* interruption between two awaits, so an invocation takes one step from   *)
(* its entry to its await and one from the settled await to its return;    *)
(* the steps of different invocations interleave.                          *)
(***************************************************************************)
\* a handler that keeps working on the telemetry it copied when it started
JoinTelemetrySnapshot(shared, snapshot) == snapshot

\* the telemetry object the handler updates after its await is the one object
\* of the closure, as the other invocations left it
JoinTelemetry(shared, snapshot) == shared

\* c.remember(metric, ...) without its catch
MetricUncaught(stored) == IF stored THEN "stored" ELSE "unhandled"

\* c.remember(metric, ...).catch(() => {})
MetricCatch(stored) == IF stored THEN "stored" ELSE "swallowed"

\* memory_preflight.execute after `await c.recall(q, ...)` settled
PreflightBody(settled, p, cache) ==
  IF settled.state = "rejected" \/ settled.value.null
  THEN [kind |-> "failed", cache |-> cache, checklist |-> <<>>, results |-> <<>>]
  ELSE LET rules == extractPolicyRules(settled.value.results)
           cache1 == MapSetAll(cache, rules)
           checklist == buildPolicyChecklist(p, cache1 \o rules)
       IN [kind |-> IF checklist = <<>> THEN "empty" ELSE "checklist", cache |-> cache1,
           checklist |-> checklist, results |-> settled.value.results]

\* what the fan-out of an overlapping turn comes back with: the general
\* query fails or returns one governance entry, the others return nothing
OverlapFanOuts ==
  {[c \in Calls |-> IF c = "general" THEN g ELSE Fulfilled(EmptyResponse)] :
     g \in {Rejected, Fulfilled(Response(<<E_P>>, "")), Fulfilled(Response(<<E_W>>, "g"))}}

OverlapPrompts == {P_Short, P_Long, P_Deploy}

\* what the recall of memory_preflight comes back with
PreflightSettlements ==
  {Rejected, Fulfilled(Response(<<E_W>>, "")), Fulfilled(Response(<<E_C, E_P>>, ""))}

\* intents given to memory_preflight
Intents == {<<"deploy">>, <<"notes">>}

OverlapStoreParams == {S_Plain, S_Crit}

\* invocations start in the order of their slots
CanStart(t) == tasks[t].pc = "free" /\ (IF t = 1 THEN TRUE ELSE tasks[t - 1].pc # "free")

OverlapTurnStarts(t, p, envOk) ==
  /\ CanStart(t)
  /\ LET h == HookStart(p, envOk, cfg, setup, telemetry)
     IN /\ setup' = h.setup
        /\ telemetry' = h.telemetry
        /\ tasks' = [tasks EXCEPT ![t] =
                       [NoTask EXCEPT !.op = "turn", !.pc = h.pc, !.arg = p, !.issued = h.issued,
                                      !.client = h.client,
                                      !.snapshot = IF h.pc = "await" THEN h.telemetry ELSE ZeroTelemetry,
                                      !.counted = IF h.telemetry.turns # telemetry.turns
                                                  THEN h.telemetry.turns ELSE 0,
                                      !.out = IF h.pc = "done" THEN Nothing ELSE NotRun]]
  /\ UNCHANGED <<cfg, now, policyCache, pc, prompt, issued, promise, pass, ret, lastTool, calls>>

OverlapTurnJoins(t, ps) ==
  /\ tasks[t].op = "turn"
  /\ tasks[t].pc = "await"
  /\ LET slots == [c \in Calls |-> IF c \in tasks[t].issued THEN ps[c] ELSE Fulfilled(EmptyResponse)]
         vals == [c \in Calls |-> CatchEmpty(slots[c]).value]
         r == TryBody(PromiseAll(slots), vals, tasks[t].arg, cfg, policyCache,
                      JoinTelemetry(telemetry, tasks[t].snapshot), now)
     IN /\ policyCache' = r.cache
        /\ telemetry' = r.tel
        /\ tasks' = [tasks EXCEPT ![t] =
                       [@ EXCEPT !.pc = "done", !.snapshot = ZeroTelemetry,
                                 !.out = [r.out EXCEPT !.kind = HandlerCatch(r.kind)],
                                 !.metric = IF r.out.emitted = 1 THEN "pending" ELSE "none",
                                 !.logged = IF r.out.emitted = 1 THEN r.tel.turns ELSE 0]]
  /\ UNCHANGED <<cfg, setup, now, pc, prompt, issued, promise, pass, ret, lastTool, calls>>

\* the c.remember of a telemetry flush settles, after the turn has returned
TelemetrySettles(t, stored) ==
  /\ tasks[t].metric = "pending"
  /\ tasks' = [tasks EXCEPT ![t] = [@ EXCEPT !.metric = MetricCatch(stored)]]
  /\ UNCHANGED <<cfg, setup, telemetry, now, policyCache, pc, prompt, issued, promise, pass, ret,
                 lastTool, calls>>

OverlapStoreStarts(t, params, envOk) ==
  /\ CanStart(t)
  /\ LET st == getClient(setup, envOk)
     IN /\ setup' = st
        /\ tasks' = [tasks EXCEPT ![t] =
                       [NoTask EXCEPT !.op = "store", !.pc = IF st.client THEN "await" ELSE "done",
                                      !.params = params, !.client = st.client,
                                      !.out = [kind |-> IF st.client THEN "notrun" ELSE "setup"]]]
  /\ UNCHANGED <<cfg, telemetry, now, policyCache, pc, prompt, issued, promise, pass, ret, lastTool,
                 calls>>

OverlapStoreReturns(t, stored, id) ==
  /\ tasks[t].op = "store"
  /\ tasks[t].pc = "await"
  /\ LET tags == StoreTags(tasks[t].params.tags, tasks[t].params.words)
         memory == [id |-> id, content |-> tasks[t].params.content, subject |-> "", tags |-> tags]
     IN /\ policyCache' = StoreCache(policyCache, tags, memory, stored)
        /\ tasks' = [tasks EXCEPT ![t] =
                       [@ EXCEPT !.pc = "done",
                                 !.out = [kind |-> IF stored THEN "stored" ELSE "failed",
                                          memory |-> memory, tags |-> tags]]]
  /\ UNCHANGED <<cfg, setup, telemetry, now, pc, prompt, issued, promise, pass, ret, lastTool, calls>>

\* memory_preflight.execute; prompt is params.prompt ?? intent, and no prompt is given
OverlapPreflightStarts(t, intent, envOk) ==
  /\ CanStart(t)
  /\ LET st == getClient(setup, envOk)
     IN /\ setup' = st
        /\ tasks' = [tasks EXCEPT ![t] =
                       [NoTask EXCEPT !.op = "preflight", !.pc = IF st.client THEN "await" ELSE "done",
                                      !.arg = intent, !.client = st.client,
                                      !.out = [kind |-> IF st.client THEN "notrun" ELSE "setup"]]]
  /\ UNCHANGED <<cfg, telemetry, now, policyCache, pc, prompt, issued, promise, pass, ret, lastTool,
                 calls>>

OverlapPreflightReturns(t, settled) ==
  /\ tasks[t].op = "preflight"
  /\ tasks[t].pc = "await"
  /\ LET r == PreflightBody(settled, tasks[t].arg, policyCache)
     IN /\ policyCache' = r.cache
        /\ tasks' = [tasks EXCEPT ![t] =
                       [@ EXCEPT !.pc = "done",
                                 !.out = [kind |-> r.kind, checklist |-> r.checklist,
                                          results |-> r.results]]]
  /\ UNCHANGED <<cfg, setup, telemetry, now, pc, prompt, issued, promise, pass, ret, lastTool, calls>>

\* more than the flush interval passes while a turn awaits its fan-out
OverlapTick ==
  /\ \E t \in 1..MaxTasks : tasks[t].op = "turn" /\ tasks[t].pc = "await"
  /\ now + FlushInterval + 1 <= MaxClock
  /\ now' = now + FlushInterval + 1
  /\ UNCHANGED <<tasks, cfg, setup, telemetry, policyCache, pc, prompt, issued, promise, pass, ret,
                 lastTool, calls>>

NextOverlap ==
  \/ \E t \in 1..MaxTasks, p \in OverlapPrompts, envOk \in BOOLEAN : OverlapTurnStarts(t, p, envOk)
  \/ \E t \in 1..MaxTasks, ps \in OverlapFanOuts : OverlapTurnJoins(t, ps)
  \/ \E t \in 1..MaxTasks, stored \in BOOLEAN : TelemetrySettles(t, stored)
  \/ \E t \in 1..MaxTasks, params \in OverlapStoreParams, envOk \in BOOLEAN :
       OverlapStoreStarts(t, params, envOk)
  \/ \E t \in 1..MaxTasks, stored \in BOOLEAN, id \in StoreIds : OverlapStoreReturns(t, stored, id)
  \/ \E t \in 1..MaxTasks, intent \in Intents, envOk \in BOOLEAN :
       OverlapPreflightStarts(t, intent, envOk)
  \/ \E t \in 1..MaxTasks, settled \in PreflightSettlements : OverlapPreflightReturns(t, settled)
  \/ OverlapTick

SpecOverlap == Init /\ [][NextOverlap]_vars

(***************************************************************************)
(* Overlapping invocations late in a session: the client exists and        *)
(* eighteen or nineteen turns have been counted, all of them skipped by    *)
(* the smart-mode guard, so that the next turns bring the counter to a     *)
(* multiple of FlushEvery.                                                 *)
(***************************************************************************)
TurnsSoFar == {FlushEvery - 2, FlushEvery - 1}

InitFlush ==
  /\ cfg = Config("smart")
  /\ setup = [client |-> TRUE, setupChecked |-> TRUE, setupFailed |-> FALSE]
  /\ \E n \in TurnsSoFar : telemetry = [ZeroTelemetry EXCEPT !.turns = n]
  /\ now = 0
  /\ policyCache = <<>>
  /\ pc = "idle"
  /\ prompt = <<>>
  /\ issued = {}
  /\ promise = [c \in Calls |-> Pending]
  /\ pass = NoPass
  /\ ret = NotRun
  /\ lastTool = NoTool
  /\ calls = 0
  /\ tasks = [t \in 1..MaxTasks |-> NoTask]

SpecFlush == InitFlush /\ [][NextOverlap]_vars

(***************************************************************************)
(* agent_end (auto-capture).  A text is a sequence of words like a prompt. *)
(***************************************************************************)
\* CAPTURE_TRIGGERS.some(p => p.test(text)), word by word for the words of the
\* model: /remember/, /prefer|like|love|hate|want|need/,
\* /decided|will use|always|never|important/, /my\s+\w+\s+is|is\s+my/
CaptureTrigger(words) ==
  \/ \E i \in 1..Len(words) :
       words[i] \in {"remember", "prefer", "like", "love", "hate", "want", "need", "decided",
                     "always", "never", "important"}
  \/ \E i \in 1..(Len(words) - 1) :
       (words[i] = "will" /\ words[i + 1] = "use") \/ (words[i] = "is" /\ words[i + 1] = "my")
  \/ \E i \in 1..(Len(words) - 2) : words[i] = "my" /\ words[i + 2] = "is"

\* INJECTION_PATTERNS.some(p => p.test(text)):
\* /ignore (all|any|previous|above|prior) instructions/, /system prompt/,
\* /<\s*(system|assistant|developer|tool)\b/
InjectionPattern(words) ==
  \/ \E i \in 1..(Len(words) - 2) :
       /\ words[i] = "ignore"
       /\ words[i + 1] \in {"all", "any", "previous", "above", "prior"}
       /\ words[i + 2] = "instructions"
  \/ \E i \in 1..(Len(words) - 1) : words[i] = "system" /\ words[i + 1] = "prompt"
  \/ \E i \in 1..Len(words) : words[i] \in {"<system", "<assistant", "<developer", "<tool"}

shouldCapture(text, maxChars) ==
  IF PromptLength(text) < 10 \/ PromptLength(text) > maxChars THEN FALSE
  ELSE IF \E i \in 1..Len(text) : text[i] = "<relevant-memories>" THEN FALSE
  ELSE IF InjectionPattern(text) THEN FALSE
  ELSE CaptureTrigger(text)

detectType(text) ==
  IF \E i \in 1..Len(text) : text[i] \in {"prefer", "like", "love", "hate", "want"} THEN "preference"
  ELSE IF \/ \E i \in 1..Len(text) : text[i] = "decided"
          \/ \E i \in 1..(Len(text) - 1) : text[i] = "will" /\ text[i + 1] = "use"
  THEN "procedural"
  ELSE "semantic"

\* texts of messages
T_Pref == <<"we", "prefer", "tabs">>
T_Decided == <<"we", "decided", "on", "rust">>
T_Always == <<"always", "run", "tests">>
T_My == <<"my", "name", "is", "max">>

\* messages: content is a string, an array of blocks, or something else
StringMessage(role, text) ==
  [role |-> role, content |-> [kind |-> "string", text |-> text, blocks |-> <<>>]]

ArrayMessage(role, blocks) ==
  [role |-> role, content |-> [kind |-> "array", text |-> <<>>, blocks |-> blocks]]

\* for (const b of msg.content) if (b?.type === "text" && typeof b.text === "string") texts.push(b.text)
RECURSIVE BlockTexts(_)
BlockTexts(blocks) ==
  IF blocks = <<>> THEN <<>>
  ELSE (IF Head(blocks).type = "text" THEN <<Head(blocks).text>> ELSE <<>>) \o BlockTexts(Tail(blocks))

\* the texts one message adds
MessageTexts(msg) ==
  IF msg.role # "user" THEN <<>>
  ELSE IF msg.content.kind = "string" THEN <<msg.content.text>>
  ELSE IF msg.content.kind = "array" THEN BlockTexts(msg.content.blocks)
  ELSE <<>>

RECURSIVE CollectTexts(_)
CollectTexts(messages) ==
  IF messages = <<>> THEN <<>>
  ELSE MessageTexts(Head(messages)) \o CollectTexts(Tail(messages))

\* texts.filter(t => shouldCapture(t, cfg.captureMaxChars))
RECURSIVE FilterCapture(_, _)
FilterCapture(texts, maxChars) ==
  IF texts = <<>> THEN <<>>
  ELSE (IF shouldCapture(Head(texts), maxChars) THEN <<Head(texts)>> ELSE <<>>)
       \o FilterCapture(Tail(texts), maxChars)

CaptureMax == 3

\* a pass that stores every accepted text
CaptureSliceAll(toCapture) == toCapture

\* toCapture.slice(0, 3)
CaptureSlice(toCapture) == SliceTo(toCapture, CaptureMax)

\* agent_end events; iterable is FALSE of an event whose messages has a length
\* and cannot be iterated
Event(success, iterable, messages) == [success |-> success, iterable |-> iterable, messages |-> messages]

\* four accepted texts among the texts of an assistant message, an image
\* block, a text without a trigger and one with an injection pattern
EV_Many ==
  Event(TRUE, TRUE,
        <<StringMessage("user", T_Pref), StringMessage("assistant", T_Decided),
          ArrayMessage("user", <<[type |-> "text", text |-> T_My], [type |-> "image", text |-> <<>>],
                                 [type |-> "text", text |-> P_Long]>>),
          StringMessage("user", <<"remember", "system", "prompt">>), StringMessage("user", T_Always),
          StringMessage("user", T_Decided)>>)

\* besides EV_Many: one accepted text; none (an assistant message, no
\* trigger, a recalled block, too short, too long, content that is neither a
\* string nor an array); an unsuccessful run; no messages; messages that
\* cannot be iterated
CaptureEvents ==
  {EV_Many,
   Event(TRUE, TRUE, <<StringMessage("assistant", T_Always), StringMessage("user", T_Decided)>>),
   Event(TRUE, TRUE,
         <<StringMessage("assistant", T_Pref), StringMessage("user", P_Long),
           StringMessage("user", <<"<relevant-memories>", "remember">>),
           StringMessage("user", <<"we", "want">>),
           StringMessage("user", <<"remember", "summarize", "yesterday", "meeting">>),
           [role |-> "user", content |-> [kind |-> "other", text |-> <<>>, blocks |-> <<>>]]>>),
   Event(FALSE, TRUE, <<StringMessage("user", T_Pref)>>),
   Event(TRUE, TRUE, <<>>),
   Event(TRUE, FALSE, <<StringMessage("user", T_Pref)>>)}

\* what a pass returns: the c.remember calls it has issued and its `stored`
Capture(kind, attempted, stored) == [kind |-> kind, attempted |-> attempted, stored |-> stored]

Attempt(text) == [text |-> text, type |-> detectType(text)]

\* agent_end from its entry to its first return or to the await of the first
\* c.remember; the texts still to store are kept in arg
AgentEndStarts(t, event, envOk) ==
  /\ CanStart(t)
  /\ IF ~event.success \/ Len(event.messages) = 0
     THEN /\ tasks' = [tasks EXCEPT ![t] = [NoTask EXCEPT !.op = "agent_end", !.pc = "done", !.params = event,
                                                          !.out = Capture("nothing", <<>>, 0)]]
          /\ UNCHANGED setup
     ELSE LET st == getClient(setup, envOk)
              toCapture == FilterCapture(CollectTexts(event.messages), cfg.captureMaxChars)
              queue == CaptureSlice(toCapture)
          IN /\ setup' = st
             /\ tasks' = [tasks EXCEPT ![t] =
                   IF ~st.client
                   THEN [NoTask EXCEPT !.op = "agent_end", !.pc = "done", !.params = event,
                                       !.out = Capture("nothing", <<>>, 0)]
                   ELSE IF ~event.iterable
                   THEN [NoTask EXCEPT !.op = "agent_end", !.pc = "done", !.params = event, !.client = TRUE,
                                       !.out = Capture(HandlerCatch("threw"), <<>>, 0)]
                   ELSE IF toCapture = <<>>
                   THEN [NoTask EXCEPT !.op = "agent_end", !.pc = "done", !.params = event, !.client = TRUE,
                                       !.out = Capture("nothing", <<>>, 0)]
                   ELSE [NoTask EXCEPT !.op = "agent_end", !.pc = "await", !.params = event, !.client = TRUE,
                                       !.arg = Tail(queue),
                                       !.out = Capture("notrun", <<Attempt(Head(queue))>>, 0)]]
  /\ UNCHANGED <<cfg, telemetry, now, policyCache, pc, prompt, issued, promise, pass, ret, lastTool, calls>>

\* `await c.remember(text, ...)` settles: stored++ or the empty catch, then the
\* next text of the loop, or the end of the pass
RememberSettles(t, stored) ==
  /\ tasks[t].op = "agent_end"
  /\ tasks[t].pc = "await"
  /\ LET n == tasks[t].out.stored + (IF stored THEN 1 ELSE 0)
     IN tasks' = [tasks EXCEPT ![t] =
          IF tasks[t].arg = <<>>
          THEN [@ EXCEPT !.pc = "done", !.out = Capture("nothing", tasks[t].out.attempted, n)]
          ELSE [@ EXCEPT !.arg = Tail(tasks[t].arg),
                         !.out = Capture("notrun",
                                         Append(tasks[t].out.attempted, Attempt(Head(tasks[t].arg))), n)]]
  /\ UNCHANGED <<cfg, setup, telemetry, now, policyCache, pc, prompt, issued, promise, pass, ret, lastTool,
                 calls>>

NextCapture ==
  \/ \E t \in 1..MaxTasks, event \in CaptureEvents, envOk \in BOOLEAN : AgentEndStarts(t, event, envOk)
  \/ \E t \in 1..MaxTasks, stored \in BOOLEAN : RememberSettles(t, stored)
  \/ \E t \in 1..MaxTasks, params \in OverlapStoreParams, envOk \in BOOLEAN :
       OverlapStoreStarts(t, params, envOk)
  \/ \E t \in 1..MaxTasks, stored \in BOOLEAN, id \in StoreIds : OverlapStoreReturns(t, stored, id)

SpecCapture == Init /\ [][NextCapture]_vars

(***************************************************************************)
(* The auto-bootstrapping plugin variant (ctxovrflw/index.ts): getClient   *)
(* is async and awaits ensureInstalled, ensureInitialized and              *)
(* ensureDaemonRunning.  Its flags bootstrapped and bootstrapFailed are    *)
(* kept in setup.setupChecked and setup.setupFailed; an invocation of      *)
(* getClient is a task whose arg names the handler that awaits it and      *)
(* whose out is what the promise resolved to.                              *)
(***************************************************************************)
\* handlers that call `await getClient()`
BootstrapCallers ==
  {<<"memory_search">>, <<"memory_store">>, <<"before_agent_start">>, <<"agent_end">>, <<"service">>}

\* getClient from its entry to its first return or its first await
GetClientCalled(t, caller) ==
  /\ CanStart(t)
  /\ IF setup.client
     THEN /\ tasks' = [tasks EXCEPT ![t] = [NoTask EXCEPT !.op = "getClient", !.pc = "done", !.arg = caller,
                                                          !.client = TRUE, !.out = [kind |-> "client"]]]
          /\ UNCHANGED setup
     ELSE IF setup.setupFailed
     THEN /\ tasks' = [tasks EXCEPT ![t] = [NoTask EXCEPT !.op = "getClient", !.pc = "done", !.arg = caller,
                                                          !.out = [kind |-> "null"]]]
          /\ UNCHANGED setup
     ELSE IF ~setup.setupChecked
     THEN /\ setup' = [setup EXCEPT !.setupChecked = TRUE]
          /\ tasks' = [tasks EXCEPT ![t] = [NoTask EXCEPT !.op = "getClient", !.pc = "ensureInstalled",
                                                          !.arg = caller, !.out = [kind |-> "pending"]]]
     ELSE \* return client, which is still null
          /\ tasks' = [tasks EXCEPT ![t] = [NoTask EXCEPT !.op = "getClient", !.pc = "done", !.arg = caller,
                                                          !.out = [kind |-> "null"]]]
          /\ UNCHANGED setup
  /\ UNCHANGED <<cfg, telemetry, now, policyCache, pc, prompt, issued, promise, pass, ret, lastTool, calls>>

\* bootstrapFailed = true; return null
BootstrapFails(t) ==
  /\ setup' = [setup EXCEPT !.setupFailed = TRUE]
  /\ tasks' = [tasks EXCEPT ![t] = [@ EXCEPT !.pc = "done", !.out = [kind |-> "null"]]]

\* Step 1: `await ensureInstalled(api.logger)` resolves
EnsureInstalledSettles(t, installed) ==
  /\ tasks[t].op = "getClient"
  /\ tasks[t].pc = "ensureInstalled"
  /\ IF ~installed
     THEN BootstrapFails(t)
     ELSE /\ tasks' = [tasks EXCEPT ![t] = [@ EXCEPT !.pc = "ensureInitialized"]]
          /\ UNCHANGED setup
  /\ UNCHANGED <<cfg, telemetry, now, policyCache, pc, prompt, issued, promise, pass, ret, lastTool, calls>>

\* Step 2: `await ensureInitialized(api.logger)` resolves, and Step 3: token is
\* whether an auth token is configured or found by readAuthToken()
EnsureInitializedSettles(t, initialized, token) ==
  /\ tasks[t].op = "getClient"
  /\ tasks[t].pc = "ensureInitialized"
  /\ IF ~initialized \/ ~token
     THEN BootstrapFails(t)
     ELSE /\ tasks' = [tasks EXCEPT ![t] = [@ EXCEPT !.pc = "ensureDaemonRunning"]]
          /\ UNCHANGED setup
  /\ UNCHANGED <<cfg, telemetry, now, policyCache, pc, prompt, issued, promise, pass, ret, lastTool, calls>>

\* Step 4: `await ensureDaemonRunning(...)` resolves; a daemon that is not
\* reachable is only logged, and the client is created either way
EnsureDaemonRunningSettles(t, running) ==
  /\ tasks[t].op = "getClient"
  /\ tasks[t].pc = "ensureDaemonRunning"
  /\ setup' = [setup EXCEPT !.client = TRUE]
  /\ tasks' = [tasks EXCEPT ![t] = [@ EXCEPT !.pc = "done", !.client = TRUE,
                                               !.out = [kind |-> "client", running |-> running]]]
  /\ UNCHANGED <<cfg, telemetry, now, policyCache, pc, prompt, issued, promise, pass, ret, lastTool, calls>>

NextBootstrap ==
  \/ \E t \in 1..MaxTasks, caller \in BootstrapCallers : GetClientCalled(t, caller)
  \/ \E t \in 1..MaxTasks, installed \in BOOLEAN : EnsureInstalledSettles(t, installed)
  \/ \E t \in 1..MaxTasks, initialized \in BOOLEAN, token \in BOOLEAN :
       EnsureInitializedSettles(t, initialized, token)
  \/ \E t \in 1..MaxTasks, running \in BOOLEAN : EnsureDaemonRunningSettles(t, running)

SpecBootstrap == Init /\ [][NextBootstrap]_vars

(***************************************************************************)
(* scoreMemory on its own: the entry is pass.merged[1], the flag is        *)
(* pass.highImpact, and its result is returned in ret                      *)
(***************************************************************************)
\* most tags of an entry given to scoreMemory
MaxTags == 2

ScoreTags == {"Pinned", "policy", "workflow", "deploy", "release", "ci", "critical"}

\* the tag lists of at most n tags
RECURSIVE TagLists(_)
TagLists(n) ==
  IF n = 0 THEN {<<>>}
  ELSE LET shorter == TagLists(n - 1)
       IN shorter \cup {Append(l, t) : l \in {m \in shorter : Len(m) = n - 1}, t \in ScoreTags}

ScoreEntries ==
  {Entry("m1", "a", subject, tags, score) :
     subject \in {"", "user", "project:ctxovrflw"}, tags \in TagLists(MaxTags), score \in {0, 50, 100}}

InitScore ==
  /\ cfg = Config("smart")
  /\ setup = [client |-> FALSE, setupChecked |-> FALSE, setupFailed |-> FALSE]
  /\ telemetry = ZeroTelemetry
  /\ now = 0
  /\ policyCache = <<>>
  /\ pc = "idle"
  /\ prompt = <<>>
  /\ issued = {}
  /\ promise = [c \in Calls |-> Pending]
  /\ \E e \in ScoreEntries, highImpact \in BOOLEAN :
       pass = [NoPass EXCEPT !.highImpact = highImpact, !.merged = <<e>>]
  /\ ret = NotRun
  /\ lastTool = NoTool
  /\ calls = 0
  /\ tasks = [t \in 1..MaxTasks |-> NoTask]

ScoreEntry ==
  /\ pc = "idle"
  /\ pc' = "done"
  /\ ret' = [kind |-> "score", value |-> scoreMemory(pass.merged[1], pass.highImpact)]
  /\ UNCHANGED <<tasks, cfg, setup, telemetry, now, policyCache, prompt, issued, promise, pass,
                 lastTool, calls>>

NextScore == ScoreEntry

SpecScore == InitScore /\ [][NextScore]_vars

(***************************************************************************)
(* buildPolicyChecklist on its own: the prompt is in prompt, the rules it  *)
(* is given are in policyCache, and its result is returned in ret          *)
(***************************************************************************)
\* longest rule list given to buildPolicyChecklist
MaxRules == 6

Rule(id, content, tags, score) ==
  [id |-> id, content |-> content, subject |-> "", tags |-> tags, score |-> score]

R_1 == Rule("r1", "one", <<"policy">>, 90)
R_2 == Rule("r2", "two", <<"Policy">>, 70)
R_3 == Rule("r3", "three", <<"workflow">>, 95)
R_4 == Rule("r4", "four", <<"correction", "policy">>, 90)
R_5 == Rule("r5", "five", <<"deploy", "workflow">>, 70)
R_6 == Rule("r6", "six", <<"Pinned", "workflow">>, 100)
R_7 == Rule("r7", "seven", <<"Critical">>, 100)

Rules == {R_1, R_2, R_3, R_4, R_5, R_6, R_7}

\* the lists of at most n rules with distinct ids
RECURSIVE RuleLists(_)
RuleLists(n) ==
  IF n = 0 THEN {<<>>}
  ELSE LET shorter == RuleLists(n - 1)
       IN shorter \cup UNION {{Append(l, r) : r \in Rules \ Range(l)} :
                               l \in {m \in shorter : Len(m) = n - 1}}

InitChecklist ==
  /\ cfg = Config("smart")
  /\ setup = [client |-> FALSE, setupChecked |-> FALSE, setupFailed |-> FALSE]
  /\ telemetry = [turns |-> 0, recalls |-> 0, preflightRecalls |-> 0, injectedMemories |-> 0, lastLogAt |-> 0]
  /\ now = 0
  /\ policyCache \in RuleLists(MaxRules)
  /\ pc = "idle"
  /\ prompt \in {P_Long, P_Deploy}
  /\ issued = {}
  /\ promise = [c \in Calls |-> Pending]
  /\ pass = NoPass
  /\ ret = NotRun
  /\ lastTool = NoTool
  /\ calls = 0
  /\ tasks = [t \in 1..MaxTasks |-> NoTask]

BuildChecklist ==
  /\ pc = "idle"
  /\ pc' = "done"
  /\ ret' = [Nothing EXCEPT !.kind = "checklist", !.checklist = buildPolicyChecklist(prompt, policyCache)]
  /\ UNCHANGED <<tasks, cfg, setup, telemetry, now, policyCache, prompt, issued, promise, pass, lastTool, calls>>

NextChecklist == BuildChecklist

SpecChecklist == InitChecklist /\ [][NextChecklist]_vars

(***************************************************************************)
(* The hook alone, under either autoRecallMode, against a service whose    *)
(* every query can come back empty                                         *)
(***************************************************************************)
ModePool(c) ==
  CASE c = "general" -> {EmptyResponse, Response(<<E_P>>, ""), Response(<<>>, "<g>")}
    [] c = "user" -> {EmptyResponse, Response(<<E_C>>, "u")}
    [] c = "project" -> {EmptyResponse}
    [] c = "preflight" -> {EmptyResponse}

ModeSettlements(c) == {Fulfilled(r) : r \in ModePool(c)} \cup {Rejected}

InitModes ==
  /\ cfg \in {Config("smart"), Config("always")}
  /\ setup = [client |-> FALSE, setupChecked |-> FALSE, setupFailed |-> FALSE]
  /\ telemetry = [turns |-> 0, recalls |-> 0, preflightRecalls |-> 0, injectedMemories |-> 0, lastLogAt |-> 0]
  /\ now = 0
  /\ policyCache = <<>>
  /\ pc = "idle"
  /\ prompt = <<>>
  /\ issued = {}
  /\ promise = [c \in Calls |-> Pending]
  /\ pass = NoPass
  /\ ret = NotRun
  /\ lastTool = NoTool
  /\ calls = 0
  /\ tasks = [t \in 1..MaxTasks |-> NoTask]

NextModes ==
  \/ \E p \in Prompts, envOk \in BOOLEAN : BeforeAgentStart(p, envOk)
  \/ \E c \in Calls : \E settled \in ModeSettlements(c) : RecallSettles(c, settled)
  \/ FanOutJoins
  \/ HandlerReturns
  \/ Tick

SpecModes == InitModes /\ [][NextModes]_vars

(***************************************************************************)
(* Properties                                                              *)
(***************************************************************************)
\* what the service returned for query c of the turn that finished
Returned(c) ==
  IF c \in issued /\ promise[c].state = "fulfilled" THEN promise[c].value.results ELSE <<>>

\* every entry returned, in the order general, user-scoped, project-scoped, preflight
Seen == Returned("general") \o Returned("user") \o Returned("project") \o Returned("preflight")

TurnHighImpact == isHighImpactIntent(prompt)

Adjusted(e) == scoreMemory(e, TurnHighImpact)

FusionDone == pc = "done" /\ pass.ran

IdsDistinct(s) == \A i, j \in 1..Len(s) : i # j => s[i].id # s[j].id

\* the first of the returned entries with this id that no other entry with
\* this id beats
FirstBest(id) ==
  CHOOSE j \in 1..Len(Seen) :
    /\ Seen[j].id = id
    /\ \A l \in 1..Len(Seen) : Seen[l].id = id => Adjusted(Seen[l]) <= Adjusted(Seen[j])
    /\ \A l \in 1..(j - 1) : Seen[l].id = id => Adjusted(Seen[l]) < Adjusted(Seen[j])

\* C1: after a fusion pass no identifier occurs twice in the ranked output, and
\* for every identifier returned by a query the entry deduplication kept is the
\* one with the highest adjusted score, the first seen among equals; A (m1, 0.5)
\* and B (m1, 0.6, pinned) leave only B, at 0.85.
C1_DedupKeepsBest ==
  FusionDone =>
    /\ IdsDistinct(pass.ranked)
    /\ IdsDistinct(pass.byId)
    /\ Range(pass.ranked) \subseteq Range(pass.byId)
    /\ \A e \in Range(pass.byId) : e.id # ""
    /\ \A i \in 1..Len(Seen) : Seen[i].id # "" =>
         /\ MapHas(pass.byId, Seen[i].id)
         /\ MapGet(pass.byId, Seen[i].id) = Seen[FirstBest(Seen[i].id)]
    /\ (E_A \in Range(Seen) /\ E_B \in Range(Seen)) =>
         /\ MapGet(pass.byId, "m1") = E_B
         /\ Adjusted(E_B) = 85
         /\ E_A \notin Range(pass.ranked)

C1_Witness ==
  /\ FusionDone
  /\ ret.kind = "context"
  /\ E_A \in Range(Seen)
  /\ E_B \in Range(Seen)
  /\ E_B \in Range(ret.ranked)

\* C2: whichever recall calls of a turn fail, the turn completes and the working
\* set that is fused is the concatenation of the results of the calls that
\* succeeded; a failed call contributes nothing and takes nothing away.
C2_FailedCallsContributeNothing ==
  (pc = "done" /\ issued # {}) =>
    /\ ret.kind \in {"nothing", "context"}
    /\ (\A c \in issued : promise[c].state = "rejected" \/ ~promise[c].value.null) => pass.ran
    /\ pass.ran => pass.merged = Seen

C2_Witness ==
  /\ FusionDone
  /\ promise["general"].state = "rejected"
  /\ promise["user"].state = "fulfilled"
  /\ promise["project"].state = "rejected"
  /\ pass.merged = promise["user"].value.results
  /\ pass.merged # <<>>

\* C3: a turn has its result only after every recall call it issued has settled.
C3_JoinWaitsForAll ==
  (pc = "done" /\ issued # {}) => \A c \in issued : promise[c].state # "pending"

C3_Witness ==
  /\ pc = "done"
  /\ issued = Calls
  /\ promise["preflight"].state = "rejected"
  /\ \A c \in Calls : promise[c].state # "pending"
  /\ ret.kind = "context"

\* C4: before_agent_start never raises to its caller: it returns a context
\* block or nothing, and once its recall calls have settled it can return.
C4_HandlerNeverRaises ==
  /\ ret.kind \in {"notrun", "nothing", "context"}
  /\ (pc = "done" /\ lastTool = NoTool) => ret.kind \in {"nothing", "context"}
  /\ (pc = "await" /\ \A c \in issued : promise[c].state # "pending") =>
       PromiseAll(SlotPromises) = "fulfilled"

C4_Witness ==
  /\ pc = "done"
  /\ issued # {}
  /\ promise["general"] = Fulfilled(NullResponse)
  /\ promise["user"].state = "rejected"
  /\ ret.kind = "nothing"

\* C5: when memory_store has stored an entry whose tags hold a governance tag
\* (in any letter case), the policy cache holds a rule under the entry's id with
\* score 1.0 as soon as the tool has its result.
C5_WriteThrough ==
  (pc = "done" /\ lastTool.tool = "memory_store" /\ lastTool.ok
     /\ LowerTags(lastTool.tags) \cap {"policy", "workflow", "critical", "correction"} # {}) =>
    /\ MapHas(policyCache, lastTool.id)
    /\ MapGet(policyCache, lastTool.id).id = lastTool.id
    /\ MapGet(policyCache, lastTool.id).score = 100

\* the rule is there although no recall call has ever been issued
C5_Witness ==
  /\ pc = "done"
  /\ lastTool.tool = "memory_store"
  /\ lastTool.ok
  /\ lastTool.tags = <<"Critical">>
  /\ telemetry.recalls = 0
  /\ MapHas(policyCache, lastTool.id)
  /\ MapGet(policyCache, lastTool.id).score = 100

\* C6: a rule identifier that is in the policy cache is in it in every later
\* state; a turn whose queries fail or do not return it leaves the rule, and a
\* high-impact turn still builds its checklist from it.
C6_CacheKeepsRules ==
  /\ [][MapKeys(policyCache) \subseteq MapKeys(policyCache')]_vars
  /\ []((FusionDone /\ TurnHighImpact /\ Len(policyCache) <= ChecklistMax) =>
          {ret.checklist[i].content : i \in 1..Len(ret.checklist)}
            = {policyCache[i].content : i \in 1..Len(policyCache)})

C6_Witness ==
  /\ FusionDone
  /\ TurnHighImpact
  /\ MapHas(policyCache, "m2")
  /\ \A i \in 1..Len(Seen) : Seen[i].id # "m2"
  /\ \E c \in issued : promise[c].state = "rejected"
  /\ \E i \in 1..Len(ret.checklist) : ret.checklist[i].content = MapGet(policyCache, "m2").content

\* C7: once memory_forget or memory_unpin has succeeded for a memory id, the
\* policy cache holds no rule with that id.
C7_ForgetRemovesRule ==
  (pc = "done" /\ lastTool.tool \in {"memory_forget", "memory_unpin"} /\ lastTool.ok) =>
    ~MapHas(policyCache, lastTool.id)

TurnLimit == IF TurnHighImpact THEN cfg.preflightRecallLimit ELSE cfg.recallLimit

\* the deduplicated entries at or above the floor
Survivors == {e \in Range(pass.byId) : Adjusted(e) >= cfg.recallMinScore}

\* C9: the ranked output has min(L, survivors) entries, L the preflight limit on
\* a high-impact turn and the general limit otherwise, and no entry that was
\* cut has a higher adjusted score than one that was kept.
C9_Cap ==
  FusionDone =>
    /\ Len(pass.ranked) = Min(TurnLimit, Cardinality(Survivors))
    /\ Range(pass.ranked) \subseteq Survivors
    /\ \A k \in Range(pass.ranked) : \A x \in Survivors \ Range(pass.ranked) :
         Adjusted(k) >= Adjusted(x)

C9_Witness ==
  /\ FusionDone
  /\ TurnHighImpact
  /\ Cardinality(Survivors) = 3
  /\ Len(pass.ranked) = 2
  /\ ret.kind = "context"

\* C10: no entry whose adjusted score is below the floor is in the ranked
\* output, is injected, or is upserted into the policy cache by that pass; an
\* entry whose base score is below the floor and whose adjusted score reaches
\* it is not dropped by the floor.
C10_Floor ==
  /\ [](FusionDone =>
          /\ \A e \in Range(pass.ranked) : Adjusted(e) >= cfg.recallMinScore
          /\ Range(ret.ranked) \subseteq Range(pass.ranked)
          /\ \A e \in Range(pass.byId) :
               (e.score < cfg.recallMinScore /\ Adjusted(e) >= cfg.recallMinScore) =>
                 \/ e \in Range(pass.ranked)
                 \/ /\ Len(pass.ranked) = TurnLimit
                    /\ \A k \in Range(pass.ranked) : Adjusted(k) >= Adjusted(e))
  /\ [][(pc = "await" /\ pc' = "done" /\ pass'.ran) =>
          \A e \in Range(pass'.byId) :
            scoreMemory(e, pass'.highImpact) < cfg.recallMinScore =>
              IF MapHas(policyCache, e.id)
              THEN MapGet(policyCache', e.id) = MapGet(policyCache, e.id)
              ELSE ~MapHas(policyCache', e.id)]_vars

C10_Witness ==
  /\ FusionDone
  /\ ~TurnHighImpact
  /\ E_T \in Range(pass.ranked)
  /\ E_T.score < cfg.recallMinScore
  /\ E_W \in Range(pass.byId)
  /\ E_W \notin Range(pass.ranked)

\* where an identifier was first seen in the concatenated results
FirstSeen(id) ==
  CHOOSE j \in 1..Len(Seen) : Seen[j].id = id /\ \A l \in 1..(j - 1) : Seen[l].id # id

\* C11: the ranked output is in non-increasing order of adjusted score, and
\* entries of equal adjusted score stand in the order in which their
\* identifiers were first seen in the concatenated results; the injected
\* entries are the ranked output in that order.
C11_RankedOrder ==
  FusionDone =>
    /\ \A i, j \in 1..Len(pass.ranked) : i < j =>
         \/ Adjusted(pass.ranked[i]) > Adjusted(pass.ranked[j])
         \/ /\ Adjusted(pass.ranked[i]) = Adjusted(pass.ranked[j])
            /\ FirstSeen(pass.ranked[i].id) < FirstSeen(pass.ranked[j].id)
    /\ ret.kind = "context" => ret.ranked = pass.ranked

\* W replaced P where P stood, ahead of C, and ties with C
C11_Witness ==
  /\ FusionDone
  /\ Seen = <<E_P, E_C, E_W>>
  /\ Adjusted(E_W) = Adjusted(E_C)
  /\ ret.kind = "context"
  /\ ret.ranked = <<E_W, E_C>>

\* C12: on every turn that issues recall queries the general, user-scoped and
\* project-scoped queries are issued, and the preflight query is issued exactly
\* when the prompt is high-impact: three queries on a turn that is not
\* high-impact, four on one that is; only a high-impact turn counts a
\* preflight recall.
C12_PreflightIffHighImpact ==
  /\ [](issued # {} =>
          /\ {"general", "user", "project"} \subseteq issued
          /\ "preflight" \in issued <=> TurnHighImpact
          /\ Cardinality(issued) = IF TurnHighImpact THEN 4 ELSE 3)
  /\ [][(pc = "await" /\ pc' = "done" /\ pass'.ran) =>
          telemetry'.preflightRecalls
            = telemetry.preflightRecalls + (IF "preflight" \in issued THEN 1 ELSE 0)]_vars

C12_Witness ==
  /\ pc = "done"
  /\ ~TurnHighImpact
  /\ issued = {"general", "user", "project"}
  /\ \A c \in issued : promise[c].state = "fulfilled"
  /\ promise["preflight"].state = "pending"
  /\ ret.kind = "context"

\* a turn of the hook has its result and the client was available to it
TurnDone == pc = "done" /\ lastTool = NoTool /\ setup.client

AllRaised == pc = "done" /\ issued # {} /\ \A c \in issued : promise[c].state = "rejected"

\* C14 as stated: when every recall call of a turn raises, the hook returns no
\* context block, whatever the prompt and the policy cache.
C14_AllRaisedReturnsNothing ==
  AllRaised => ret.kind = "nothing"

\* C14: when every recall call of a turn raises, no exception escapes the hook
\* and it returns no context block, unless the prompt is high-impact and the
\* policy cache holds a rule: then it returns a context block with no memory
\* and the checklist built from the cache.
C14_AllRaisedReturnsChecklistOnly ==
  AllRaised =>
    /\ ret.kind \in {"nothing", "context"}
    /\ ret.kind = "context" <=> (TurnHighImpact /\ policyCache # <<>>)
    /\ ret.ranked = <<>>
    /\ ret.kind = "context" =>
         /\ ret.checklist # <<>>
         /\ {ret.checklist[i].content : i \in 1..Len(ret.checklist)}
              \subseteq {policyCache[i].content : i \in 1..Len(policyCache)}

C14_Witness ==
  /\ AllRaised
  /\ issued = Calls
  /\ policyCache # <<>>
  /\ ret.kind = "context"
  /\ ret.ranked = <<>>
  /\ Len(ret.checklist) = Len(policyCache)

\* what the hook returns, the policy cache and the telemetry counters
Outcome == <<ret, policyCache, telemetry>>

\* the outcome of joining, from the state the turn is in, a fan-out of which
\* every query succeeded with an empty result list
QuietOutcome ==
  LET r == TryBody("fulfilled", [c \in Calls |-> EmptyResponse], prompt, cfg, policyCache,
                   telemetry, now)
  IN <<[r.out EXCEPT !.kind = HandlerCatch(r.kind)], r.cache, r.tel>>

C16_NothingIffNothingQualified ==
  FusionDone =>
    /\ ret.kind = "nothing" <=> (pass.ranked = <<>> /\ ~(TurnHighImpact /\ policyCache # <<>>))
    /\ ret.kind = "context" =>
         /\ ret.ranked = pass.ranked
         /\ ret.checklist # <<>> <=> (TurnHighImpact /\ policyCache # <<>>)
         /\ ret.ranked # <<>> \/ ret.checklist # <<>>

\* entries came back, none reached the floor, and nothing is returned
C16_Witness ==
  /\ FusionDone
  /\ Seen # <<>>
  /\ pass.ranked = <<>>
  /\ ret.kind = "nothing"

\* buildPolicyChecklist(prompt, policyCache) has returned ret.checklist
ChecklistBuilt == pc = "done" /\ ret.kind = "checklist"

Listed == {ret.checklist[i].content : i \in 1..Len(ret.checklist)}

PolicyOrWorkflow(r) == LowerTags(r.tags) \cap {"policy", "workflow"} # {}

\* the rules buildPolicyChecklist may list for the prompt
Candidates ==
  {r \in Range(policyCache) : TurnHighImpact \/ PolicyOrWorkflow(r)}

\* C17: for a prompt that is not high-impact buildPolicyChecklist never lists a
\* rule that has neither a policy nor a workflow tag (in any letter case) and
\* lists the rules that have one, up to five; for a high-impact prompt every
\* rule it is given is a candidate, whatever its tags.
C17_ChecklistCandidates ==
  ChecklistBuilt =>
    /\ \A r \in Range(policyCache) : r.content \in Listed => r \in Candidates
    /\ Listed \subseteq {r.content : r \in Range(policyCache)}
    /\ Len(ret.checklist) = Min(5, Cardinality(Candidates))
    /\ TurnHighImpact => Len(ret.checklist) = Min(5, Len(policyCache))
    /\ Cardinality(Candidates) <= 5 => Listed = {r.content : r \in Candidates}

\* the highest-scored rule is left out for its tags, Policy is kept
C17_Witness ==
  /\ ChecklistBuilt
  /\ ~TurnHighImpact
  /\ policyCache = <<R_7, R_2, R_3>>
  /\ Listed = {"two", "three"}

\* where a rule stands in the list given to buildPolicyChecklist
RulePos(r) == CHOOSE i \in 1..Len(policyCache) : policyCache[i] = r

\* the rule an item of the checklist was made from
ItemRule(i) == CHOOSE r \in Range(policyCache) : r.content = ret.checklist[i].content

\* rule a goes before rule b in the checklist order
Before(a, b) == a.score > b.score \/ (a.score = b.score /\ RulePos(a) < RulePos(b))

\* C18: the checklist has at most five items, numbered 1..n; they are
\* candidates in non-increasing order of stored score, equal scores in the
\* order they were given in, and with more than five candidates they are the
\* five that come first in that order; rules scored 0.9, 0.7, 0.95 are listed
\* 0.95, 0.9, 0.7; no candidate gives the empty list.
C18_ChecklistOrder ==
  ChecklistBuilt =>
    /\ Len(ret.checklist) <= 5
    /\ Len(ret.checklist) = Min(5, Cardinality(Candidates))
    /\ \A i \in 1..Len(ret.checklist) :
         /\ ret.checklist[i].n = i
         /\ \E r \in Candidates : r.content = ret.checklist[i].content
    /\ \A i, j \in 1..Len(ret.checklist) : i < j => Before(ItemRule(i), ItemRule(j))
    /\ \A r \in Candidates : r.content \notin Listed =>
         \A i \in 1..Len(ret.checklist) : Before(ItemRule(i), r)
    /\ Candidates = {} <=> ret.checklist = <<>>
    /\ (policyCache = <<R_1, R_2, R_3>>) =>
         ret.checklist = <<[n |-> 1, content |-> "three"], [n |-> 2, content |-> "one"],
                           [n |-> 3, content |-> "two"]>>

\* six candidates with two ties: one before four, and two kept while five is cut
C18_Witness ==
  /\ ChecklistBuilt
  /\ policyCache = <<R_2, R_1, R_5, R_4, R_3, R_6>>
  /\ ret.checklist = <<[n |-> 1, content |-> "six"], [n |-> 2, content |-> "three"],
                       [n |-> 3, content |-> "one"], [n |-> 4, content |-> "four"],
                       [n |-> 5, content |-> "two"]>>

\* C19: a context block returned on a turn that is not high-impact has no
\* checklist, even when the policy cache holds policy or workflow rules; on a
\* high-impact turn the checklist is built from the whole policy cache as the
\* turn's refresh left it, rules of this turn's ranked entries included.
C19_ChecklistOnlyHighImpact ==
  /\ (pc = "done" /\ lastTool = NoTool /\ ~TurnHighImpact) => ret.checklist = <<>>
  /\ (FusionDone /\ TurnHighImpact) =>
       /\ Len(ret.checklist) = Min(5, Len(policyCache))
       /\ Len(policyCache) <= 5 =>
            /\ \A r \in Range(policyCache) : r.content \in Listed
            /\ \A e \in Range(pass.ranked) :
                 LowerTags(e.tags) \cap {"policy", "workflow", "critical", "correction"} # {} =>
                   e.content \in Listed

C19_Witness ==
  /\ FusionDone
  /\ ~TurnHighImpact
  /\ ret.kind = "context"
  /\ \E r \in Range(policyCache) : PolicyOrWorkflow(r)
  /\ ret.checklist = <<>>

\* a turn the hook counted in telemetry.turns has its result
TurnCounted == pc = "done" /\ lastTool = NoTool /\ setup.client /\ PromptLength(prompt) >= 5

\* C20: with telemetry enabled, a turn at which the turns counter is a multiple
\* of 20, or at which more than the flush interval has passed since the last
\* flush, emits one telemetry record, whether or not it injected a memory.
C20_FlushOnEveryDueTurn ==
  (TurnCounted /\ cfg.telemetryEnabled
     /\ (telemetry.turns % 20 = 0 \/ now - telemetry.lastLogAt > FlushInterval)) =>
    ret.emitted = 1

\* C21: the telemetry counters (turns, recalls, preflightRecalls,
\* injectedMemories) and the time of the last flush never decrease, whatever
\* turn or tool call takes a step; a flush does not reset the counters.
C21_TelemetryMonotone ==
  [][/\ telemetry'.turns >= telemetry.turns
     /\ telemetry'.recalls >= telemetry.recalls
     /\ telemetry'.preflightRecalls >= telemetry.preflightRecalls
     /\ telemetry'.injectedMemories >= telemetry.injectedMemories
     /\ telemetry'.lastLogAt >= telemetry.lastLogAt]_vars

\* a tool call has finished after a turn that injected and flushed
C21_Witness ==
  /\ pc = "done"
  /\ lastTool.tool = "memory_store"
  /\ telemetry.lastLogAt > 0
  /\ telemetry.turns > 0
  /\ telemetry.recalls > 0
  /\ telemetry.preflightRecalls > 0
  /\ telemetry.injectedMemories > 0

\* C22: a failure of the c.remember that records a telemetry summary is
\* swallowed: the turn has returned while that call was still pending, its
\* settling either way leaves the returned context block, the policy cache and
\* the telemetry as they were, and no error is raised.
C22_TelemetryFailureSwallowed ==
  /\ [](\A t \in 1..MaxTasks :
          /\ tasks[t].metric \in {"none", "pending", "stored", "swallowed"}
          /\ tasks[t].op = "turn" => tasks[t].out.kind \in {"notrun", "nothing", "context"})
  /\ [][\A t \in 1..MaxTasks :
          (tasks[t].op = "turn" /\ tasks[t].pc = "await" /\ tasks'[t].pc = "done"
             /\ tasks'[t].out.emitted = 1) =>
            (tasks'[t].metric = "pending" /\ tasks'[t].out.kind = "context")]_vars
  /\ [][\A t \in 1..MaxTasks :
          (tasks[t].metric = "pending" /\ tasks'[t].metric # "pending") =>
            /\ tasks'[t].out = tasks[t].out
            /\ tasks'[t].pc = "done"
            /\ policyCache' = policyCache
            /\ telemetry' = telemetry]_vars

C22_Witness ==
  \E t \in 1..MaxTasks :
    /\ tasks[t].op = "turn"
    /\ tasks[t].pc = "done"
    /\ tasks[t].out.kind = "context"
    /\ tasks[t].out.emitted = 1
    /\ tasks[t].metric = "swallowed"

\* an entry or rule that carries a governance tag, in any letter case
Governed(e) == LowerTags(e.tags) \cap {"policy", "workflow", "critical", "correction"} # {}

ObservedRule(e) ==
  [id |-> e.id, content |-> e.content, subject |-> e.subject, tags |-> e.tags, score |-> e.score]

ObservedRules(entries) ==
  LET governed == SelectSeq(entries, Governed)
  IN [i \in 1..Len(governed) |-> ObservedRule(governed[i])]

\* the rules the invocation that has just returned upserted, in order
Upserts(task) ==
  CASE task.op = "turn" /\ task.out.kind = "context" -> ObservedRules(task.out.ranked)
    [] task.op = "preflight" /\ task.out.kind \in {"checklist", "empty"} ->
         ObservedRules(task.out.results)
    [] task.op = "store" /\ task.out.kind = "stored" /\ Governed([tags |-> task.out.tags]) ->
         <<[id |-> task.out.memory.id, content |-> task.out.memory.content,
            subject |-> task.out.memory.subject, tags |-> task.out.memory.tags, score |-> 100]>>
    [] OTHER -> <<>>

LastFor(rules, id) ==
  rules[CHOOSE i \in 1..Len(rules) :
          rules[i].id = id /\ \A j \in (i + 1)..Len(rules) : rules[j].id # id]

\* invocation t takes its step from the settled await to its return
Finishing(t) == tasks[t].pc = "await" /\ tasks'[t].pc = "done"

\* C23: however turns, memory_preflight calls and memory_store calls overlap,
\* the policy cache holds one rule per identifier, and after each upserting
\* step the rule under an identifier is the one that step upserted last for it
\* (last write wins) while every other identifier keeps its rule; no other
\* step changes the cache.
C23_CacheWellFormed ==
  /\ [](IdsDistinct(policyCache) /\ \A r \in Range(policyCache) : r.id # "")
  /\ [][\A t \in 1..MaxTasks : Finishing(t) =>
          LET rules == Upserts(tasks'[t])
          IN \A id \in MapKeys(policyCache) \cup MapKeys(policyCache') \cup MapKeys(rules) :
               IF MapHas(rules, id)
               THEN MapHas(policyCache', id) /\ MapGet(policyCache', id) = LastFor(rules, id)
               ELSE /\ MapHas(policyCache, id)
                    /\ MapHas(policyCache', id)
                    /\ MapGet(policyCache', id) = MapGet(policyCache, id)]_vars
  /\ [][(\A t \in 1..MaxTasks : ~Finishing(t)) => policyCache' = policyCache]_vars

\* a store that began before a turn wrote its rule after the turn's refresh
C23_Witness ==
  /\ tasks[1].op = "store"
  /\ tasks[1].pc = "done"
  /\ tasks[1].out.kind = "stored"
  /\ tasks[2].op = "turn"
  /\ tasks[2].pc = "done"
  /\ tasks[2].out.kind = "context"
  /\ E_P \in Range(tasks[2].out.ranked)
  /\ MapGet(policyCache, "m2").score = 100

\* the turns that passed the prompt-length and client guards
CountedTurns ==
  {t \in 1..MaxTasks : tasks[t].op = "turn" /\ tasks[t].client /\ PromptLength(tasks[t].arg) >= 5}

\* those of them that issued the fan-out
FannedOut == {t \in CountedTurns : tasks[t].issued # {}}

\* C24: however turns overlap with each other and with tool calls, the turns
\* counter equals the number of turns that passed the guards, the recalls
\* counter the number of them that issued the fan-out, and, once they have
\* returned, the preflightRecalls counter the number of high-impact ones: no
\* increment is lost.
C24_NoLostIncrement ==
  /\ telemetry.turns = Cardinality(CountedTurns)
  /\ telemetry.recalls = Cardinality(FannedOut)
  /\ telemetry.preflightRecalls
       = Cardinality({t \in FannedOut : tasks[t].pc = "done" /\ isHighImpactIntent(tasks[t].arg)})
  /\ \A t \in CountedTurns :
       tasks[t].issued # {} <=> (isHighImpactIntent(tasks[t].arg) \/ PromptLength(tasks[t].arg) >= 25)

\* two high-impact turns have returned, the one that began first joining last
C24_Witness ==
  /\ tasks[1].op = "turn"
  /\ tasks[2].op = "turn"
  /\ tasks[1].pc = "done"
  /\ tasks[2].pc = "done"
  /\ tasks[1].out.ranked = <<E_W>>
  /\ tasks[2].out.ranked = <<E_P>>
  /\ MapGet(policyCache, "m2").content = E_W.content
  /\ telemetry.turns = 2
  /\ telemetry.recalls = 2
  /\ telemetry.preflightRecalls = 2

\* the recall responses the turn that finished fused
FusedResponses ==
  [c \in Calls |-> IF c \in issued THEN CatchEmpty(promise[c]).value ELSE EmptyResponse]

\* a fusion pass over the same responses, from the given cache and telemetry
Refused(cache, tel) == TryBody("fulfilled", FusedResponses, prompt, cfg, cache, tel, now)

\* policy caches and telemetry a pass may start from
OtherCaches == {<<>>, <<R_7>>, <<RuleOf(E_T), RuleOf(E_W), RuleOf(E_C)>>}

OtherTelemetry ==
  {ZeroTelemetry,
   [turns |-> 19, recalls |-> 7, preflightRecalls |-> 3, injectedMemories |-> 11, lastLogAt |-> 1]}

\* C25: a second fusion pass over the same recall responses gives the same
\* ranked list, entry for entry and in the same order, whatever the policy
\* cache and the telemetry hold, and leaves the policy cache as the first pass
\* left it.
C25_FusionIdempotent ==
  FusionDone =>
    /\ Refused(policyCache, telemetry).pass.ranked = pass.ranked
    /\ Refused(policyCache, telemetry).cache = policyCache
    /\ \A cache \in OtherCaches, tel \in OtherTelemetry :
         Refused(cache, tel).pass.ranked = pass.ranked

\* the pass ranked two entries and refreshed a cache that held a stored rule
C25_Witness ==
  /\ FusionDone
  /\ Len(pass.ranked) = 2
  /\ \E e \in Range(pass.ranked) : Governed(e)
  /\ \E r \in Range(policyCache) : r.score = 100
  /\ Len(policyCache) = 2

\* the graph context the general query of the turn returned, "" for none
GeneralGraph ==
  IF "general" \in issued /\ promise["general"].state = "fulfilled"
       /\ ~promise["general"].value.null
  THEN promise["general"].value.graph_context
  ELSE ""

\* C26 as stated: whenever the general query's response carries graph
\* context, the turn returns it (as it came or escaped).
C26_GraphAlwaysIncluded ==
  (pc = "done" /\ pass.ran /\ GeneralGraph # "") =>
    /\ ret.kind = "context"
    /\ ret.graph \in {GeneralGraph, escapeForPrompt(GeneralGraph)}

\* C26: a context block the turn returns includes the graph context of the
\* general query's response, with &, < and > escaped, and never the graph
\* context of the user-scoped, project-scoped or preflight query; a turn for
\* which nothing qualified returns no block and drops the graph context.
C26_GraphOfGeneralOnly ==
  (pc = "done" /\ issued # {}) =>
    /\ ret.kind = "context" => ret.graph = escapeForPrompt(GeneralGraph)
    /\ ret.kind = "nothing" => ret.graph = ""
    /\ pass.ran => (ret.kind = "nothing" <=> (pass.ranked = <<>> /\ ret.checklist = <<>>))

C26_Witness ==
  /\ pc = "done"
  /\ ret.kind = "context"
  /\ GeneralGraph = "<g>"
  /\ promise["user"] = Fulfilled(Response(<<E_C>>, "u"))
  /\ ret.graph = "&lt;g&gt;"

\* C27: with autoRecallMode "always" every turn that recalls issues the
\* preflight query and caps its ranked output at the preflight limit, whatever
\* the prompt's intent.
C27_AlwaysModeSweepsEveryTurn ==
  (pc = "done" /\ issued # {} /\ cfg.autoRecallMode = "always") =>
    /\ "preflight" \in issued
    /\ pass.ran => Len(pass.ranked) = Min(cfg.preflightRecallLimit, Cardinality(Survivors))

\* scoreMemory(pass.merged[1], pass.highImpact) has returned ret.value
Scored == pc = "done" /\ ret.kind = "score"

\* the bonuses of an entry, each counted once
Bonuses(e, highImpact) ==
  (IF \E i \in 1..Len(e.tags) : ToLowerCase(e.tags[i]) = "pinned" THEN 25 ELSE 0)
  + (IF \E i \in 1..Len(e.tags) : ToLowerCase(e.tags[i]) = "policy" THEN 20 ELSE 0)
  + (IF \E i \in 1..Len(e.tags) : ToLowerCase(e.tags[i]) = "workflow" THEN 10 ELSE 0)
  + (IF highImpact /\ \E i \in 1..Len(e.tags) : ToLowerCase(e.tags[i]) \in {"deploy", "release", "ci"}
     THEN 12 ELSE 0)
  + (IF e.subject = "user" THEN 5 ELSE 0)

\* C28: the adjusted score is the base score plus the bonuses that apply
\* (+0.25 pinned, +0.20 policy, +0.10 workflow, +0.12 deploy/release/ci when
\* high-impact, +0.05 subject user), each once and independently, without
\* clamping; adding a qualifying tag or setting the subject to "user" never
\* lowers it.
C28_ScoreAdditive ==
  Scored =>
    LET e == pass.merged[1]
        highImpact == pass.highImpact
    IN /\ ret.value = e.score + Bonuses(e, highImpact)
       /\ \A t \in {"pinned", "policy", "workflow", "deploy", "release", "ci"} :
            LET more == [e EXCEPT !.tags = Append(@, t)]
            IN /\ scoreMemory(more, highImpact) >= ret.value
               /\ scoreMemory(more, highImpact) = e.score + Bonuses(more, highImpact)
       /\ scoreMemory([e EXCEPT !.subject = "user"], highImpact) >= ret.value
       /\ scoreMemory([e EXCEPT !.subject = "user"], highImpact)
            = ret.value + (IF e.subject = "user" THEN 0 ELSE 5)

\* three bonuses on a base score of 1.0 give 1.5
C28_Witness ==
  /\ Scored
  /\ pass.merged[1].tags = <<"Pinned", "policy">>
  /\ pass.merged[1].subject = "user"
  /\ pass.merged[1].score = 100
  /\ ret.value = 150

\* C29: when the c.remember of memory_store fails, the tool returns a failure
\* result and the policy cache is as it was before the call: no rule is written
\* through for the entry that was not stored.
C29_FailedStoreLeavesCache ==
  /\ [][(pc = "idle" /\ lastTool'.tool = "memory_store" /\ ~lastTool'.ok) =>
          (pc' = "done" /\ policyCache' = policyCache)]_vars
  /\ []((pc = "done" /\ lastTool.tool = "memory_store" /\ ~lastTool.ok) => lastTool.id = "")

\* the store of a Critical-tagged text failed and the cached rule of an
\* earlier turn is all the cache holds
C29_Witness ==
  /\ pc = "done"
  /\ lastTool.tool = "memory_store"
  /\ ~lastTool.ok
  /\ setup.client
  /\ lastTool.tags = <<"Critical">>
  /\ Len(policyCache) = 1
  /\ policyCache[1].score < 100

\* C30: when a fusion pass or a memory_preflight recall surfaces governance
\* entries, each cached identifier among them keeps its place in the cache and
\* gets the rule of the new observation (content, tags and base score), a rule
\* written through with score 1.0 included; the cache grows only by the
\* identifiers that were not cached.
C30_UpsertInPlace ==
  [][\A t \in 1..MaxTasks :
       (Finishing(t) /\ tasks[t].op \in {"turn", "preflight"}) =>
         LET rules == Upserts(tasks'[t])
         IN /\ Len(policyCache') = Len(policyCache) + Cardinality(MapKeys(rules) \ MapKeys(policyCache))
            /\ \A i \in 1..Len(policyCache) :
                 policyCache'[i] = IF MapHas(rules, policyCache[i].id)
                                   THEN LastFor(rules, policyCache[i].id)
                                   ELSE policyCache[i]]_vars

\* the rule stored under m2 with score 1.0 was replaced where it stood by the
\* rule of P, which memory_preflight recalled after C
C30_Witness ==
  /\ tasks[1].op = "store"
  /\ tasks[1].out.kind = "stored"
  /\ tasks[2].op = "preflight"
  /\ tasks[2].pc = "done"
  /\ tasks[2].out.results = <<E_C, E_P>>
  /\ policyCache = <<ObservedRule(E_P), ObservedRule(E_C)>>

\* the identifiers of the governance-tagged entries of a ranked output
RankedGoverned(ranked) == {e.id : e \in {x \in Range(ranked) : HasGovernanceTag(x.tags)}}

\* C31: a fusion pass changes the policy cache only at the identifiers of the
\* governance-tagged entries of its final ranked output: an entry dropped by
\* the floor or by the cap is not upserted, and every other cache entry stays
\* as and where it was.
C31_RefreshOnlyRanked ==
  [][(pc = "await" /\ pc' = "done") =>
       LET upserted == RankedGoverned(pass'.ranked)
       IN /\ MapKeys(policyCache') = MapKeys(policyCache) \cup upserted
          /\ \A i \in 1..Len(policyCache) :
               policyCache[i].id \notin upserted => policyCache'[i] = policyCache[i]]_vars

\* P (m2, adjusted 0.35) cleared the floor and lost its place to C under the
\* cap of one; the rule stored under m2 is still the one memory_store wrote
C31_Witness ==
  /\ FusionDone
  /\ E_P \in Range(pass.merged)
  /\ Adjusted(E_P) >= cfg.recallMinScore
  /\ pass.ranked = <<E_C>>
  /\ MapHas(policyCache, "m3")
  /\ MapHas(policyCache, "m2")
  /\ MapGet(policyCache, "m2").score = 100

\* C32: the checklist memory_preflight returns lists each policy rule at most
\* once: no two of its items come from the same rule, the rules its own recall
\* has just returned and cached included.
C32_PreflightListsRuleOnce ==
  \A t \in 1..MaxTasks :
    IF tasks[t].op = "preflight" /\ tasks[t].pc = "done" /\ tasks[t].out.kind = "checklist"
    THEN \A i, j \in 1..Len(tasks[t].out.checklist) :
           i # j => tasks[t].out.checklist[i].content # tasks[t].out.checklist[j].content
    ELSE TRUE

\* C33: in the auto-bootstrapping variant getClient answers null only when
\* bootstrap has failed: when the bootstrap has succeeded, no caller has been
\* answered null, a caller that arrived while it was in progress included.
C33_NullOnlyAfterFailure ==
  setup.client =>
    \A t \in 1..MaxTasks :
      (tasks[t].op = "getClient" /\ tasks[t].pc = "done") => tasks[t].out.kind = "client"

\* a getClient of the auto-bootstrapping variant is between two of its awaits
Bootstrapping(t) ==
  tasks[t].op = "getClient" /\ tasks[t].pc \in {"ensureInstalled", "ensureInitialized", "ensureDaemonRunning"}

\* the handler invocation t makes its getClient call in this step
CallsGetClient(t) == tasks[t].pc = "free" /\ tasks'[t].pc # "free"

\* C34: the setup check runs at most once per process: it starts only while
\* the checked flag is down, which it never is again; after it has failed
\* every later getClient call returns null and changes nothing; after it has
\* succeeded every later call returns the client; and a client exists only if
\* the check has run and not failed.
C34_SetupCheckedOnce ==
  /\ [](setup.client => (setup.setupChecked /\ ~setup.setupFailed))
  /\ [](Cardinality({t \in 1..MaxTasks : Bootstrapping(t)}) <= 1)
  /\ [][/\ setup.setupChecked => setup'.setupChecked
        /\ (setup.setupFailed \/ setup.client) => setup' = setup
        /\ setup' # setup => (~setup.setupChecked \/ \E t \in 1..MaxTasks : Bootstrapping(t))
        /\ \A t \in 1..MaxTasks :
             CallsGetClient(t) =>
               /\ setup.setupFailed => (~tasks'[t].client /\ tasks'[t].pc = "done")
               /\ setup.client => tasks'[t].client
               /\ Bootstrapping(t)' => ~setup.setupChecked]_vars

\* the check failed on the first call; the second call, of memory_store, was
\* answered null as well
C34_Witness ==
  /\ setup.setupFailed
  /\ ~setup.client
  /\ tasks[1].pc = "done"
  /\ ~tasks[1].client
  /\ tasks[2].op = "store"
  /\ tasks[2].pc = "done"
  /\ tasks[2].out.kind = "setup"

\* C35: in every reachable state, the states between the two halves of
\* overlapping turns included, preflightRecalls <= recalls <= turns.
C35_CounterOrder ==
  /\ telemetry.preflightRecalls <= telemetry.recalls
  /\ telemetry.recalls <= telemetry.turns

\* two high-impact turns overlap: both have counted their recall, one has
\* joined and counted its preflight recall, the other still awaits its fan-out
C35_Witness ==
  /\ tasks[1].op = "turn"
  /\ tasks[2].op = "turn"
  /\ tasks[1].pc = "await"
  /\ tasks[2].pc = "done"
  /\ telemetry.turns = 2
  /\ telemetry.recalls = 2
  /\ telemetry.preflightRecalls = 1

\* C36: under overlapping turns no two turns emit a telemetry summary record
\* for the same value of the turns counter, and a turn that brought the
\* counter to a multiple of 20 and injects memories emits the record for that
\* value.
C36_OneRecordPerCount ==
  /\ \A t, u \in 1..MaxTasks : (t # u /\ tasks[t].logged # 0) => tasks[t].logged # tasks[u].logged
  /\ \A t \in 1..MaxTasks :
       (/\ tasks[t].op = "turn"
        /\ tasks[t].pc = "done"
        /\ tasks[t].counted # 0
        /\ tasks[t].counted % FlushEvery = 0
        /\ tasks[t].out.ranked # <<>>) => tasks[t].logged = tasks[t].counted

\* C37: in every reachable state every rule in the policy cache carries at
\* least one governance tag (policy, workflow, critical or correction, in any
\* case), whichever path inserted it and whatever the store service returned.
C37_CachedRulesGoverned ==
  \A r \in Range(policyCache) : HasGovernanceTag(r.tags)

\* a before_agent_start call takes this step from the idle host
HookCalled == pc = "idle" /\ prompt' # <<>>

\* everything but the setup flags and the bookkeeping of the call itself
Untouched ==
  /\ telemetry' = telemetry
  /\ policyCache' = policyCache
  /\ now' = now
  /\ cfg' = cfg
  /\ issued' = {}
  /\ ret' = Nothing

\* C38 as stated: a smart-mode turn that is not high-impact and shorter than
\* 25 characters issues no query, returns nothing, counts the turn and leaves
\* the rest of the telemetry and the policy cache alone; a turn shorter than 5
\* characters, or one for which no client is available, changes no state at
\* all.
C38_GuardsChangeNothing ==
  [][HookCalled =>
       /\ (setup'.client /\ PromptLength(prompt') >= 5 /\ PromptLength(prompt') < 25
             /\ ~isHighImpactIntent(prompt')) =>
            /\ issued' = {}
            /\ ret' = Nothing
            /\ pc' = "done"
            /\ telemetry' = [telemetry EXCEPT !.turns = @ + 1]
            /\ policyCache' = policyCache
       /\ (PromptLength(prompt') < 5 \/ ~setup'.client) => (Untouched /\ pc' = "done" /\ setup' = setup)]_vars

\* C38: as above, except that the turn for which no client is available may
\* be the one call that runs the setup check: it then raises setupChecked and
\* setupFailed, and changes nothing else.
C38_GuardsChangeOnlySetup ==
  [][HookCalled =>
       /\ (setup'.client /\ PromptLength(prompt') >= 5 /\ PromptLength(prompt') < 25
             /\ ~isHighImpactIntent(prompt')) =>
            /\ issued' = {}
            /\ ret' = Nothing
            /\ pc' = "done"
            /\ telemetry' = [telemetry EXCEPT !.turns = @ + 1]
            /\ policyCache' = policyCache
       /\ PromptLength(prompt') < 5 => (Untouched /\ pc' = "done" /\ setup' = setup)
       /\ (PromptLength(prompt') >= 5 /\ ~setup'.client) =>
            /\ Untouched
            /\ pc' = "done"
            /\ setup' = IF setup.setupChecked THEN setup
                         ELSE [client |-> FALSE, setupChecked |-> TRUE, setupFailed |-> TRUE]]_vars

\* a short turn was skipped after an earlier turn had counted a recall and a
\* rule had been cached
C38_Witness ==
  /\ pc = "done"
  /\ prompt = P_Short
  /\ ret = Nothing
  /\ issued = {}
  /\ setup.client
  /\ telemetry.turns = 2
  /\ telemetry.recalls = 1
  /\ policyCache # <<>>

\* the texts of user-role messages of an event
UserTexts(event) ==
  {m.content.text : m \in {x \in Range(event.messages) : x.role = "user" /\ x.content.kind = "string"}}
    \cup UNION {{b.text : b \in {y \in Range(m.content.blocks) : y.type = "text"}} :
                 m \in {x \in Range(event.messages) : x.role = "user" /\ x.content.kind = "array"}}

\* the accepted texts of an event, in message order
Accepted(event) == FilterCapture(CollectTexts(event.messages), cfg.captureMaxChars)

\* invocation t takes a step of an agent_end pass
CaptureStep(t) == tasks'[t].op = "agent_end" /\ tasks'[t] # tasks[t]

\* C39: one agent_end pass issues at most 3 store calls, only for texts of
\* user-role messages that shouldCapture accepts, in message order; a failing
\* store call does not keep the remaining ones from being attempted; the pass
\* never raises and never modifies the policy cache.
C39_CapturePass ==
  /\ [](\A t \in 1..MaxTasks :
          IF tasks[t].op = "agent_end"
          THEN LET event == tasks[t].params
                   attempted == tasks[t].out.attempted
               IN /\ Len(attempted) <= 3
                  /\ Len(attempted) <= Len(Accepted(event))
                  /\ \A i \in 1..Len(attempted) :
                       /\ attempted[i].text = Accepted(event)[i]
                       /\ attempted[i].text \in UserTexts(event)
                       /\ shouldCapture(attempted[i].text, cfg.captureMaxChars)
                  /\ tasks[t].out.kind # "raised"
                  /\ tasks[t].out.stored <= Len(attempted)
                  /\ (tasks[t].pc = "done" /\ tasks[t].client /\ event.iterable) =>
                       Len(attempted) = Min(3, Len(Accepted(event)))
          ELSE TRUE)
  /\ [][(\E t \in 1..MaxTasks : CaptureStep(t)) => policyCache' = policyCache]_vars

\* four texts were accepted, three store calls were made although at least
\* two of them failed, and the cached rule is as memory_store left it
C39_Witness ==
  /\ tasks[1].op = "store"
  /\ policyCache # <<>>
  /\ tasks[2].op = "agent_end"
  /\ tasks[2].pc = "done"
  /\ tasks[2].params = EV_Many
  /\ Len(Accepted(EV_Many)) = 4
  /\ tasks[2].out.attempted = <<Attempt(T_Pref), Attempt(T_My), Attempt(T_Always)>>
  /\ tasks[2].out.stored = 1

====
